---------------------------- MODULE Spec2Model ----------------------------
(***************************************************************************)
(* A model of the /chat request pipeline of rag-agent-workbench: the       *)
(* LangGraph stages of services/chat/graph.py, the /chat handler of        *)
(* routers/chat.py, the TTL caches of core/cache.py and the metrics        *)
(* aggregator of core/metrics.py.                                          *)
(*                                                                         *)
(* Conventions.                                                            *)
(*  - A Python dict is a function whose DOMAIN is the set of keys present. *)
(*  - Scores (floats in 0.0 .. 1.0) are integers in hundredths.            *)
(*  - One clock, now, in seconds, stands for time.monotonic (cachetools)   *)
(*    and perf_counter (timings); a duration in ms is 1000 * seconds.      *)
(*  - cachetools.TTLCache is modelled after cachetools >= 5.0: an entry    *)
(*    put at time t with ttl is present while timer() < t + ttl.           *)
(***************************************************************************)
EXTENDS Integers, Sequences, FiniteSets, TLC

(***************************************************************************)
(* Program constants.                                                      *)
(***************************************************************************)
SEARCH_TTL_SECONDS == 60

CHAT_TTL_SECONDS == 60

TIMING_BUFFER_SIZE == 20

TIMING_FIELDS == <<"retrieve_ms", "web_ms", "generate_ms", "total_ms">>

PINECONE_NAMESPACE == "dev"

\* normalize_input reads RAG_DEFAULT_TOP_K, RAG_MIN_SCORE (hundredths) and
\* RAG_MAX_WEB_RESULTS from the settings, which core/config.py of this tree
\* does not declare; they take the defaults of the ChatRequest fields.
RAG_DEFAULT_TOP_K == 5

RAG_MIN_SCORE == 25

RAG_MAX_WEB_RESULTS == 5

\* Settings.HTTP_MAX_RETRIES
HTTP_MAX_RETRIES == 3

(***************************************************************************)
(* Bounds of the model.                                                    *)
(***************************************************************************)
\* TTLCache(maxsize=512) for the chat cache, scaled down.
ChatCacheMaxSize == 1

\* TTLCache(maxsize=1024) for the search cache, scaled down.
SearchCacheMaxSize == 2

\* The clock advances in steps of this many seconds.
TickSeconds == 30

\* The clock stops here.
MaxTime == 60

\* Number of /chat requests received in one behaviour.
MaxRequests == 3

\* Number of timing samples recorded in one behaviour of SpecMetrics.
MaxSamples == 22

\* Of those, how many may be the slow sample.
MaxSlowSamples == 2

\* Number of cache operations in one behaviour of SpecCache.
MaxCacheOps == 4

\* LangGraph's default recursion_limit: the steps one graph.invoke may take.
RecursionLimit == 25

\* requests counted by the middleware in SpecSnapshot
MaxCounted == 2

\* length of the short workloads of SpecSnapshot
MaxShortLoad == 3

\* direct cache operations in one behaviour of SpecBypass
MaxBypassOps == 2

\* threads of SpecLocks
MaxThreads == 2

\* SpecStats: the cache operations beside one get_cache_stats call
MaxStatsOps == 4

\* SpecBackoff: the greatest HTTP_MAX_RETRIES the environment configures
MaxConfiguredRetries == 6

Slots == {1, 2}

Threads == 1..MaxThreads

\* metrics._lock and cache._lock
Locks == {"metrics", "cache"}


VARIABLES
    now,               \* the monotonic clock, in seconds
    CACHE_ENABLED,     \* cache.py _CACHE_ENABLED
    TAVILY_API_KEY,    \* TRUE iff settings.TAVILY_API_KEY is set
    tavily_importable, \* TRUE iff TavilySearchResults can be imported
    settings_complete, \* TRUE iff Settings declares TAVILY_API_KEY, RAG_* and GROQ_*;
                       \* core/config.py as it stands declares none of them
    GROQ_API_KEY,      \* TRUE iff settings.GROQ_API_KEY is set
    search_cache,      \* cache.py _search_cache
    chat_cache,        \* cache.py _chat_cache
    search_hits, search_misses, chat_hits, chat_misses,
    request_counts,    \* metrics.py _request_counts
    error_counts,      \* metrics.py _error_counts
    timing_samples,    \* metrics.py _timing_samples
    timing_sums,       \* metrics.py _timing_sums
    timing_count,      \* metrics.py _timing_count
    pc,                \* per request slot: where its /chat handler stands
    payload,           \* per request slot: the ChatRequest
    state,             \* per request slot: the ChatState of its graph run
    result,            \* per request slot: what the handler returned or raised
    start_total,       \* per request slot: perf_counter() before graph.invoke
    stages,            \* history: per slot, the graph nodes run, in order
    received,          \* history: number of requests received
    completed,         \* history: per chat key, the last fresh response
    ops,               \* history: number of cache operations of SpecCache
    cache_op,          \* history: the last cache operation and its outcome
    stored,            \* history: per cache and key, the last put
    recent,            \* history: per cache, its keys from least to most recently used
    recorded,          \* history: every sample given to record_chat_timings
    snap_pc,           \* where the one get_metrics_snapshot call stands
    snapshot,          \* what that call has copied and computed so far
    workload,          \* the timing samples still to be recorded (SpecSnapshot)
    fetch,             \* the one ingestion fetch under way and its attempts so far
    lock_owner,        \* per lock (metrics._lock, cache._lock): the thread holding it, or 0
    running,           \* per thread: the lock operations it has still to do
    events,            \* the server-sent events /chat/stream has emitted so far
    auth,              \* the one request passing the API key checks, and how far it is
    stats,             \* the one get_cache_stats call: the counters read so far
    held               \* the snapshot a caller of get_metrics_snapshot has kept

cfg_vars == <<CACHE_ENABLED, TAVILY_API_KEY, tavily_importable, settings_complete,
              GROQ_API_KEY>>

cache_vars == <<search_cache, chat_cache, search_hits, search_misses,
                chat_hits, chat_misses, cache_op, stored, recent, ops>>

metric_vars == <<request_counts, error_counts, timing_samples, timing_sums,
                 timing_count, recorded>>

chat_vars == <<pc, payload, state, result, start_total, stages, received,
               completed>>

snap_vars == <<snap_pc, snapshot, workload>>

lock_vars == <<lock_owner, running>>

\* the state only the later specifications move
\* the state only the specifications of the stream and later ones move
late_vars == <<events, auth, stats, held>>

other_vars == <<snap_vars, fetch, lock_vars, late_vars>>

vars == <<now, cfg_vars, cache_vars, metric_vars, chat_vars, other_vars>>

(***************************************************************************)
(* Python dicts.                                                           *)
(***************************************************************************)
EmptyDict == <<>>

Has(d, k) == k \in DOMAIN d

Put(d, k, v) == [x \in (DOMAIN d) \cup {k} |-> IF x = k THEN v ELSE d[x]]

\* d.get(k) or default, for a number
NumOr(d, k, default) == IF Has(d, k) /\ d[k] # 0 THEN d[k] ELSE default

\* d.get(k) or [], for a list
ListOr(d, k) == IF Has(d, k) THEN d[k] ELSE <<>>

\* bool(d.get(k))
Flag(d, k) == Has(d, k) /\ d[k]

Max(a, b) == IF a >= b THEN a ELSE b

Min(a, b) == IF a <= b THEN a ELSE b

(***************************************************************************)
(* cachetools.TTLCache.  A cache is [entries, lru]: entries is the linked  *)
(* list of the items in the order of their last put (so by expiry time),   *)
(* each [key, value, expires]; lru is the key order of the OrderedDict     *)
(* __links, which __getitem__ and __setitem__ move a key to the end of.    *)
(***************************************************************************)
EmptyCache == [entries |-> <<>>, lru |-> <<>>]

RemoveKey(keys, k) == SelectSeq(keys, LAMBDA x : x # k)

RemoveEntry(es, k) == SelectSeq(es, LAMBDA e : e.key # k)

HasKey(c, k) == \E i \in 1..Len(c.entries) : c.entries[i].key = k

EntryOf(c, k) == c.entries[CHOOSE i \in 1..Len(c.entries) : c.entries[i].key = k]

CacheKeys(c) == {c.entries[i].key : i \in 1..Len(c.entries)}

\* TTLCache.expire(time): unlink from the head while not (time < expires)
RECURSIVE TTLExpire(_, _)
TTLExpire(c, time) ==
    IF c.entries # <<>> /\ ~(time < Head(c.entries).expires)
    THEN TTLExpire([entries |-> Tail(c.entries),
                    lru |-> RemoveKey(c.lru, Head(c.entries).key)], time)
    ELSE c

\* TTLCache.__contains__: no reordering
TTLContains(c, k, time) == HasKey(c, k) /\ time < EntryOf(c, k).expires

\* TTLCache.popitem, the timer frozen at time: the first key of __links
TTLPopItem(c, time) ==
    LET e == TTLExpire(c, time)
    IN  IF e.lru = <<>> THEN e
        ELSE [entries |-> RemoveEntry(e.entries, Head(e.lru)),
              lru |-> Tail(e.lru)]

\* Cache.__setitem__: while currsize + size > maxsize: popitem()
RECURSIVE CacheMakeRoom(_, _, _)
CacheMakeRoom(c, time, maxsize) ==
    IF Len(c.entries) + 1 > maxsize /\ c.entries # <<>>
    THEN CacheMakeRoom(TTLPopItem(c, time), time, maxsize)
    ELSE c

\* TTLCache.__setitem__
TTLSetItem(c, k, v, time, ttl, maxsize) ==
    LET c1 == TTLExpire(c, time)
        c2 == IF HasKey(c1, k) THEN c1 ELSE CacheMakeRoom(c1, time, maxsize)
    IN  [entries |-> Append(RemoveEntry(c2.entries, k),
                            [key |-> k, value |-> v, expires |-> time + ttl]),
         lru |-> Append(RemoveKey(c2.lru, k), k)]

\* a subscript that gives the entry it returns a further minute to live
GetItemRenewing(c, k) ==
    IF HasKey(c, k)
    THEN [entries |-> [i \in 1..Len(c.entries) |->
                         IF c.entries[i].key = k
                         THEN [c.entries[i] EXCEPT !.expires = @ + 60]
                         ELSE c.entries[i]],
          lru |-> Append(RemoveKey(c.lru, k), k)]
    ELSE c

\* a subscript that leaves the order of __links alone
GetItemUnmoved(c, k) == c

\* TTLCache.__getitem__: the cache after it (the key moved to the end of
\* __links) and whether it returns the value or raises KeyError
TTLGetItemCache(c, k) ==
    IF HasKey(c, k) THEN [c EXCEPT !.lru = Append(RemoveKey(c.lru, k), k)]
    ELSE c

TTLGetItemFound(c, k, time) == HasKey(c, k) /\ time < EntryOf(c, k).expires

(***************************************************************************)
(* core/cache.py                                                           *)
(***************************************************************************)
\* json.dumps(filters, sort_keys=True, separators=(",", ":")): a filter
\* dict is modelled as the set of its (key, value) pairs, whose canonical
\* form is the set itself; None gives "".
MakeSearchKey(namespace, query, top_k, filters) ==
    <<namespace, query, top_k, filters>>

MakeChatKey(namespace, query, top_k, min_score, use_web_fallback) ==
    <<namespace, query, top_k, min_score, use_web_fallback>>

\* The body of get_search_cached / get_chat_cached on cache c with counters
\* hits and misses: the membership test reads the timer at t1 and the
\* subscript reads it again at t2 >= t1, both with the lock held.
GetCached(enabled, c, hits, misses, key, t1, t2) ==
    IF ~enabled
    THEN [cache |-> c, hits |-> hits, misses |-> misses,
          outcome |-> "disabled", value |-> EmptyDict]
    ELSE IF TTLContains(c, key, t1)
    THEN IF TTLGetItemFound(c, key, t2)
         THEN [cache |-> TTLGetItemCache(c, key), hits |-> hits + 1,
               misses |-> misses, outcome |-> "hit",
               value |-> EntryOf(c, key).value]
         ELSE [cache |-> TTLGetItemCache(c, key), hits |-> hits + 1,
               misses |-> misses, outcome |-> "KeyError", value |-> EmptyDict]
    ELSE [cache |-> c, hits |-> hits, misses |-> misses + 1,
          outcome |-> "miss", value |-> EmptyDict]

\* The body of set_search_cached / set_chat_cached
SetCached(enabled, c, key, value, time, ttl, maxsize) ==
    IF ~enabled THEN c ELSE TTLSetItem(c, key, value, time, ttl, maxsize)


(***************************************************************************)
(* core/metrics.py                                                         *)
(***************************************************************************)
FieldSet == {TIMING_FIELDS[i] : i \in 1..Len(TIMING_FIELDS)}

Paths == {"/chat"}

\* sample = {field: float(timings.get(field, 0.0)) for field in _TIMING_FIELDS}
MakeSample(timings) ==
    [f \in FieldSet |-> IF Has(timings, f) THEN timings[f] ELSE 0]

\* a list in place of the deque: nothing is ever dropped
AppendUnbounded(dq, x, maxlen) == Append(dq, x)

\* deque(maxlen=n).append(x): a full deque drops its oldest item
DequeAppend(dq, x, maxlen) ==
    IF Len(dq) >= maxlen THEN Append(Tail(dq), x) ELSE Append(dq, x)

\* record_chat_timings(timings)
record_chat_timings(timings) ==
    LET sample == MakeSample(timings)
    IN  /\ timing_samples' = DequeAppend(timing_samples, sample, TIMING_BUFFER_SIZE)
        /\ timing_sums' = [f \in FieldSet |-> timing_sums[f] + sample[f]]
        /\ timing_count' = timing_count + 1
        /\ recorded' = Append(recorded, sample)

\* the middleware counting an error only when the handler raised
count_raised_only(path, status, raised) ==
    /\ request_counts' = [request_counts EXCEPT ![path] = @ + 1]
    /\ error_counts' = IF raised THEN [error_counts EXCEPT ![path] = @ + 1]
                       ELSE error_counts

\* the middleware counting a request whose handler raised in the except
\* branch and once more after it
count_twice_when_raised(path, status, raised) ==
    /\ request_counts' = [request_counts EXCEPT ![path] = @ + (IF raised THEN 2 ELSE 1)]
    /\ error_counts' = IF raised \/ status >= 400
                       THEN [error_counts EXCEPT ![path] = @ + 1]
                       ELSE error_counts

\* metrics_middleware, after call_next: one request counted for the path,
\* and one error when the handler raised or the status is >= 400
count_request(path, status, raised) ==
    /\ request_counts' = [request_counts EXCEPT ![path] = @ + 1]
    /\ error_counts' = IF raised \/ status >= 400
                       THEN [error_counts EXCEPT ![path] = @ + 1]
                       ELSE error_counts

\* values rounded down where Python rounds to the nearest integer
RoundDown(num, den) == num \div den

\* int(round(num / den)) for num >= 0, den > 0: Python rounds to the nearest
\* integer and a tie to the even one
RoundHalfEven(num, den) ==
    LET q == num \div den
        r == num % den
    IN  IF 2 * r < den THEN q
        ELSE IF 2 * r > den THEN q + 1
        ELSE IF q % 2 = 0 THEN q ELSE q + 1

\* sorted(values)
Sorted(values) == SortSeq(values, LAMBDA a, b : a < b)

\* _percentile(values, p)
percentile(values, p) ==
    IF values = <<>> THEN 0
    ELSE LET values_sorted == Sorted(values)
             k == Max(0, Min(Len(values_sorted) - 1,
                             RoundHalfEven(p * (Len(values_sorted) - 1), 100)))
         IN  values_sorted[k + 1]

\* a quotient that leaves the count out
SumOnly(total, count) == total * 100

\* sums.get(field, 0.0) / count, in hundredths of a millisecond, the
\* fraction below a hundredth cut off
Quotient(total, count) == (total * 100) \div count

\* get_cache_stats()
\* no snapshot kept
NoSnapshot == [taken |-> FALSE, copied |-> <<>>, returned |-> <<>>, read |-> <<>>]

get_cache_stats ==
    [search_hits |-> search_hits, search_misses |-> search_misses,
     chat_hits |-> chat_hits, chat_misses |-> chat_misses]

\* a copy that takes the buffer and leaves the running count at zero
CopyWithoutCount(requests, errors, samples, sums, count) ==
    [requests_by_path |-> requests, errors_by_path |-> errors,
     samples |-> samples, sums |-> sums, count |-> 0]

\* get_metrics_snapshot, the block under the lock: the five copies
SnapshotCopied(requests, errors, samples, sums, count) ==
    [requests_by_path |-> requests, errors_by_path |-> errors,
     samples |-> samples, sums |-> sums, count |-> count]

\* [s.get(field, 0.0) for s in samples]
FieldValues(samples, f) == [i \in 1..Len(samples) |-> samples[i][f]]

\* a snapshot that reads the running count again after the lock is released
ComputedFromLiveCount(copied, cache_stats) ==
    [requests_by_path |-> copied.requests_by_path,
     errors_by_path |-> copied.errors_by_path,
     timings |-> [average_ms |-> [f \in FieldSet |-> 0],
                  p50_ms |-> [f \in FieldSet |-> 0],
                  p95_ms |-> [f \in FieldSet |-> 0]],
     cache |-> cache_stats,
     sample_count |-> timing_count,
     samples |-> copied.samples]

\* get_metrics_snapshot, after the lock is released: the averages and the
\* percentiles of the copies, the cache counters, and the returned dict
SnapshotComputed(copied, cache_stats) ==
    [requests_by_path |-> copied.requests_by_path,
     errors_by_path |-> copied.errors_by_path,
     timings |->
        [average_ms |-> [f \in FieldSet |->
                            IF copied.count > 0
                            THEN Quotient(copied.sums[f], copied.count) ELSE 0],
         p50_ms |-> [f \in FieldSet |->
                        IF copied.samples # <<>>
                        THEN percentile(FieldValues(copied.samples, f), 50) ELSE 0],
         p95_ms |-> [f \in FieldSet |->
                        IF copied.samples # <<>>
                        THEN percentile(FieldValues(copied.samples, f), 95) ELSE 0]],
     cache |-> cache_stats,
     sample_count |-> copied.count,
     samples |-> copied.samples]

(***************************************************************************)
(* Initial values.                                                         *)
(***************************************************************************)
NoOp == [op |-> "none", cache |-> "none", key |-> <<>>, t1 |-> 0,
         t2 |-> 0, outcome |-> "none", value |-> EmptyDict,
         before |-> EmptyCache, evicted |-> {}]

\* no ingestion fetch under way
NoFetch == [phase |-> "idle", fetcher |-> "", attempt_number |-> 0,
            attempts |-> <<>>, waits |-> <<>>, raised |-> [type |-> "none", status |-> 0],
            answer |-> EmptyDict]

\* the Settings of the chat service: core/config.py as it stands, which
\* declares none of the fields the chat service reads, or a Settings that
\* declares them, with or without a Groq key
ChatSettings ==
    /\ settings_complete \in BOOLEAN
    /\ GROQ_API_KEY \in BOOLEAN
    /\ settings_complete \/ (~GROQ_API_KEY /\ ~TAVILY_API_KEY)

InitShared ==
    /\ now = 0
    /\ search_cache = EmptyCache
    /\ chat_cache = EmptyCache
    /\ search_hits = 0
    /\ search_misses = 0
    /\ chat_hits = 0
    /\ chat_misses = 0
    /\ request_counts = [p \in Paths |-> 0]
    /\ error_counts = [p \in Paths |-> 0]
    /\ timing_samples = <<>>
    /\ timing_sums = [f \in FieldSet |-> 0]
    /\ timing_count = 0
    /\ pc = [r \in Slots |-> "idle"]
    /\ payload = [r \in Slots |-> EmptyDict]
    /\ state = [r \in Slots |-> EmptyDict]
    /\ result = [r \in Slots |-> EmptyDict]
    /\ start_total = [r \in Slots |-> 0]
    /\ stages = [r \in Slots |-> <<>>]
    /\ received = 0
    /\ completed = EmptyDict
    /\ ops = 0
    /\ stored = [chat |-> EmptyDict, search |-> EmptyDict]
    /\ recent = [chat |-> <<>>, search |-> <<>>]
    /\ recorded = <<>>
    /\ snap_pc = "idle"
    /\ snapshot = EmptyDict
    /\ lock_owner = [l \in Locks |-> 0]
    /\ running = [t \in Threads |-> <<>>]
    /\ events = <<>>
    /\ held = NoSnapshot
    /\ stats = [pos |-> 0, values |-> EmptyDict, seen |-> {}, missed |-> <<>>]
    /\ auth = [phase |-> "startup", API_KEY |-> "", path |-> <<>>, header |-> "",
               status |-> 0, handler |-> "", checks |-> <<>>]

\* Time passes.
Tick ==
    /\ now + TickSeconds <= MaxTime
    /\ now' = now + TickSeconds
    /\ UNCHANGED <<cfg_vars, other_vars, cache_vars, metric_vars, chat_vars>>

\* The clock readings a step that starts now may end at.
Later == {t \in {now, now + TickSeconds} : t <= MaxTime}

(***************************************************************************)
(* SpecMetrics: the aggregator driven directly.                            *)
(***************************************************************************)
FastSample == [retrieve_ms |-> 10, web_ms |-> 5, generate_ms |-> 20, total_ms |-> 40]

\* no web_ms: the web search did not run
SlowSample == [retrieve_ms |-> 50, generate_ms |-> 100, total_ms |-> 150]

SlowRecorded ==
    Cardinality({i \in 1..Len(recorded) : recorded[i] = MakeSample(SlowSample)})

RecordFast ==
    /\ Len(recorded) < MaxSamples
    /\ record_chat_timings(FastSample)
    /\ UNCHANGED <<now, cfg_vars, other_vars, cache_vars, chat_vars, request_counts, error_counts>>

RecordSlow ==
    /\ Len(recorded) < MaxSamples
    /\ SlowRecorded < MaxSlowSamples
    /\ record_chat_timings(SlowSample)
    /\ UNCHANGED <<now, cfg_vars, other_vars, cache_vars, chat_vars, request_counts, error_counts>>

InitMetrics ==
    /\ InitShared
    /\ fetch = NoFetch
    /\ workload = <<>>
    /\ cache_op = NoOp
    /\ CACHE_ENABLED = TRUE
    /\ TAVILY_API_KEY = FALSE
    /\ tavily_importable = FALSE
    /\ settings_complete = TRUE
    /\ GROQ_API_KEY = TRUE

NextMetrics == RecordFast \/ RecordSlow

SpecMetrics == InitMetrics /\ [][NextMetrics]_vars


(***************************************************************************)
(* SpecSnapshot: get_metrics_snapshot beside the two writers of the        *)
(* aggregator.  The samples to record are fixed by the initial state; the  *)
(* snapshot is two steps, the copies under the lock and the rest after it. *)
(***************************************************************************)
\* the timings of one request, all of them in proportion to v
TimingOf(v) == [retrieve_ms |-> v, generate_ms |-> 2 * v, total_ms |-> 3 * v]

ShortValues == {10, 20, 30}

ShortLoads == UNION {[1..n -> ShortValues] : n \in 0..MaxShortLoad}

\* five requests of 10, 20, 30, 40 and 50 ms, in order and out of order
FiveLoads == {<<10, 20, 30, 40, 50>>, <<50, 10, 40, 20, 30>>}

\* more requests than the buffer holds: a slow one first, or all different
LongLoads == {[i \in 1..MaxSamples |-> IF i = 1 THEN 150 ELSE 40],
              [i \in 1..MaxSamples |-> 10 * (((3 * i) % 5) + 1) + i]}

Workloads == ShortLoads \cup FiveLoads \cup LongLoads

RecordNext ==
    /\ workload # <<>>
    /\ record_chat_timings(TimingOf(Head(workload)))
    /\ workload' = Tail(workload)
    /\ UNCHANGED <<now, cfg_vars, cache_vars, chat_vars, request_counts,
                   error_counts, snap_pc, snapshot, fetch, lock_vars, late_vars>>

CountRequest ==
    /\ request_counts["/chat"] < MaxCounted
    /\ \E status \in {200, 502} : count_request("/chat", status, FALSE)
    /\ UNCHANGED <<now, cfg_vars, cache_vars, chat_vars, timing_samples,
                   timing_sums, timing_count, recorded, snap_vars, fetch, lock_vars, late_vars>>

\* get_metrics_snapshot, lines 82-87
SnapshotCopy ==
    /\ snap_pc = "idle"
    /\ snap_pc' = "copied"
    /\ snapshot' = SnapshotCopied(request_counts, error_counts, timing_samples,
                                  timing_sums, timing_count)
    /\ UNCHANGED <<now, cfg_vars, cache_vars, metric_vars, chat_vars, workload, fetch, lock_vars, late_vars>>

\* get_metrics_snapshot, lines 89-123
SnapshotCompute ==
    /\ snap_pc = "copied"
    /\ snap_pc' = "done"
    /\ snapshot' = SnapshotComputed(snapshot, get_cache_stats)
    /\ UNCHANGED <<now, cfg_vars, cache_vars, metric_vars, chat_vars, workload, fetch, lock_vars, late_vars>>

\* the caller is done with the snapshot
SnapshotReturn ==
    /\ snap_pc = "done"
    /\ snap_pc' = "idle"
    /\ snapshot' = EmptyDict
    /\ UNCHANGED <<now, cfg_vars, cache_vars, metric_vars, chat_vars, workload, fetch, lock_vars, late_vars>>

InitSnapshot ==
    /\ InitShared
    /\ fetch = NoFetch
    /\ workload \in Workloads
    /\ cache_op = NoOp
    /\ CACHE_ENABLED = TRUE
    /\ TAVILY_API_KEY = FALSE
    /\ tavily_importable = FALSE
    /\ settings_complete = TRUE
    /\ GROQ_API_KEY = TRUE

NextSnapshot ==
    RecordNext \/ CountRequest \/ SnapshotCopy \/ SnapshotCompute \/ SnapshotReturn

SpecSnapshot == InitSnapshot /\ [][NextSnapshot]_vars

(***************************************************************************)
(* The cache functions as actions.  A lookup starts now and ends at t2,    *)
(* the clock having been read by the membership test and by the subscript. *)
(***************************************************************************)
\* the keys a put removed to make room (not those it removed as expired)
CapacityEvicted(c, key, time, ttl, maxsize) ==
    (CacheKeys(TTLExpire(c, time)) \ CacheKeys(TTLSetItem(c, key, 0, time, ttl, maxsize)))

\* the history of puts after a put of key at time
StoredAfter(log, c, key, value, time, ttl, maxsize) ==
    LET gone == CapacityEvicted(c, key, time, ttl, maxsize)
        marked == [k \in DOMAIN log |->
                     IF k \in gone THEN [log[k] EXCEPT !.evicted = TRUE] ELSE log[k]]
    IN  Put(marked, key, [at |-> time, value |-> value, evicted |-> FALSE])

\* the keys in order of use after key was put or returned
Used(keys, key) == Append(SelectSeq(keys, LAMBDA x : x # key), key)

get_chat_cached(key, t2) ==
    LET g == GetCached(CACHE_ENABLED, chat_cache, chat_hits, chat_misses, key, now, t2)
    IN  /\ chat_cache' = g.cache
        /\ chat_hits' = g.hits
        /\ chat_misses' = g.misses
        /\ cache_op' = [op |-> "get", cache |-> "chat",
                        key |-> key, t1 |-> now, t2 |-> t2, outcome |-> g.outcome,
                        value |-> g.value, before |-> chat_cache, evicted |-> {}]
        /\ recent' = IF g.outcome = "hit" THEN [recent EXCEPT !.chat = Used(@, key)]
                      ELSE recent
        /\ now' = t2
        /\ UNCHANGED <<search_cache, search_hits, search_misses, stored>>

set_chat_cached(key, value) ==
    /\ chat_cache' = SetCached(CACHE_ENABLED, chat_cache, key, value, now,
                               CHAT_TTL_SECONDS, ChatCacheMaxSize)
    /\ cache_op' = [op |-> "set", cache |-> "chat",
                    key |-> key, t1 |-> now, t2 |-> now,
                    outcome |-> IF CACHE_ENABLED THEN "stored" ELSE "disabled",
                    value |-> value, before |-> chat_cache,
                    evicted |-> IF CACHE_ENABLED
                                THEN CapacityEvicted(chat_cache, key, now,
                                         CHAT_TTL_SECONDS, ChatCacheMaxSize)
                                ELSE {}]
    /\ stored' = IF CACHE_ENABLED
                 THEN [stored EXCEPT !.chat = StoredAfter(@, chat_cache, key, value,
                                         now, CHAT_TTL_SECONDS, ChatCacheMaxSize)]
                 ELSE stored
    /\ recent' = IF CACHE_ENABLED THEN [recent EXCEPT !.chat = Used(@, key)] ELSE recent
    /\ UNCHANGED <<search_cache, search_hits, search_misses, chat_hits, chat_misses>>

get_search_cached(key, t2) ==
    LET g == GetCached(CACHE_ENABLED, search_cache, search_hits, search_misses,
                       key, now, t2)
    IN  /\ search_cache' = g.cache
        /\ search_hits' = g.hits
        /\ search_misses' = g.misses
        /\ cache_op' = [op |-> "get", cache |-> "search",
                        key |-> key, t1 |-> now, t2 |-> t2, outcome |-> g.outcome,
                        value |-> g.value, before |-> search_cache, evicted |-> {}]
        /\ recent' = IF g.outcome = "hit" THEN [recent EXCEPT !.search = Used(@, key)]
                      ELSE recent
        /\ now' = t2
        /\ UNCHANGED <<chat_cache, chat_hits, chat_misses, stored>>

set_search_cached(key, value) ==
    /\ search_cache' = SetCached(CACHE_ENABLED, search_cache, key, value, now,
                                 SEARCH_TTL_SECONDS, SearchCacheMaxSize)
    /\ cache_op' = [op |-> "set", cache |-> "search",
                    key |-> key, t1 |-> now, t2 |-> now,
                    outcome |-> IF CACHE_ENABLED THEN "stored" ELSE "disabled",
                    value |-> value, before |-> search_cache,
                    evicted |-> IF CACHE_ENABLED
                                THEN CapacityEvicted(search_cache, key, now,
                                         SEARCH_TTL_SECONDS, SearchCacheMaxSize)
                                ELSE {}]
    /\ stored' = IF CACHE_ENABLED
                 THEN [stored EXCEPT !.search = StoredAfter(@, search_cache, key,
                                         value, now, SEARCH_TTL_SECONDS,
                                         SearchCacheMaxSize)]
                 ELSE stored
    /\ recent' = IF CACHE_ENABLED THEN [recent EXCEPT !.search = Used(@, key)] ELSE recent
    /\ UNCHANGED <<chat_cache, chat_hits, chat_misses, search_hits, search_misses>>

(***************************************************************************)
(* SpecCache: the cache functions driven directly, one cache a behaviour.  *)
(***************************************************************************)
QueryNames == <<"q1", "q2", "q3", "q4", "q5">>

\* one more query than the cache holds
Queries(maxsize) == {QueryNames[i] : i \in 1..Min(maxsize + 1, Len(QueryNames))}

Answers == {"a1", "a2"}

NoTimings == [f \in FieldSet |-> 0]

CannedResponse(a) == [answer |-> a, sources |-> <<>>, timings |-> NoTimings]

CacheGetChat ==
    /\ cache_op.cache \in {"pick_chat", "chat"}
    /\ ops < MaxCacheOps
    /\ ops' = ops + 1
    /\ \E q \in Queries(ChatCacheMaxSize), t2 \in Later :
         get_chat_cached(MakeChatKey(PINECONE_NAMESPACE, q, 5, 25, TRUE), t2)
    /\ UNCHANGED <<cfg_vars, other_vars, metric_vars, chat_vars>>

CacheSetChat ==
    /\ cache_op.cache \in {"pick_chat", "chat"}
    /\ ops < MaxCacheOps
    /\ ops' = ops + 1
    /\ \E q \in Queries(ChatCacheMaxSize), a \in Answers :
         set_chat_cached(MakeChatKey(PINECONE_NAMESPACE, q, 5, 25, TRUE),
                         CannedResponse(a))
    /\ UNCHANGED <<now, cfg_vars, other_vars, metric_vars, chat_vars>>

CacheGetSearch ==
    /\ cache_op.cache \in {"pick_search", "search"}
    /\ ops < MaxCacheOps
    /\ ops' = ops + 1
    /\ \E q \in Queries(SearchCacheMaxSize), t2 \in Later :
         get_search_cached(MakeSearchKey(PINECONE_NAMESPACE, q, 5, ""), t2)
    /\ UNCHANGED <<cfg_vars, other_vars, metric_vars, chat_vars>>

CacheSetSearch ==
    /\ cache_op.cache \in {"pick_search", "search"}
    /\ ops < MaxCacheOps
    /\ ops' = ops + 1
    /\ \E q \in Queries(SearchCacheMaxSize), hits \in {<<>>, <<90>>} :
         set_search_cached(MakeSearchKey(PINECONE_NAMESPACE, q, 5, ""), hits)
    /\ UNCHANGED <<now, cfg_vars, other_vars, metric_vars, chat_vars>>

InitCache ==
    /\ InitShared
    /\ fetch = NoFetch
    /\ workload = <<>>
    /\ cache_op \in {[NoOp EXCEPT !.cache = c] : c \in {"pick_chat", "pick_search"}}
    /\ CACHE_ENABLED \in BOOLEAN
    /\ TAVILY_API_KEY = FALSE
    /\ tavily_importable = FALSE
    /\ settings_complete = TRUE
    /\ GROQ_API_KEY = TRUE

NextCache == CacheGetChat \/ CacheSetChat \/ CacheGetSearch \/ CacheSetSearch \/ Tick

SpecCache == InitCache /\ [][NextCache]_vars


(***************************************************************************)
(* services/chat/graph.py: the nodes as functions of the ChatState and of  *)
(* what the outside world answered.  A node gives [state, error]; error is *)
(* NoError or the exception it raised.                                     *)
(***************************************************************************)
NoError == [type |-> "none", service |-> ""]

UpstreamServiceError(service) == [type |-> "UpstreamServiceError", service |-> service]

\* any exception the code does not wrap
RawException == [type |-> "Exception", service |-> ""]

\* settings.X for a field X that Settings does not declare
AttributeError == [type |-> "AttributeError", service |-> ""]

\* d[k] for a key k that d does not have
KeyError == [type |-> "KeyError", service |-> ""]

\* get_llm() without a GROQ_API_KEY
RuntimeError == [type |-> "RuntimeError", service |-> ""]

Update(d, e) == [x \in (DOMAIN d) \cup (DOMAIN e) |-> IF x \in DOMAIN e THEN e[x] ELSE d[x]]

\* timings = state.get("timings") or {}
ensure_timings(s) == IF Has(s, "timings") THEN s["timings"] ELSE EmptyDict

\* the state after _ensure_timings(state): state["timings"] = timings, which
\* a node that raises later has already done to the dict it was given
TimingsEnsured(s) == Put(s, "timings", ensure_timings(s))

\* s or default, for strings
StrOr(x, default) == IF x = "" THEN default ELSE x

\* the difference taken the wrong way round
ElapsedMsBackwards(start, stop) == (start - stop) * 1000

\* seconds on the clock to the milliseconds of (perf_counter() - start) * 1000.0
ElapsedMs(start, stop) == (stop - start) * 1000

\* is_tavily_configured(): bool(settings.TAVILY_API_KEY), or the
\* AttributeError of a Settings without that field
is_tavily_configured ==
    IF settings_complete
    THEN [value |-> TAVILY_API_KEY, error |-> NoError]
    ELSE [value |-> FALSE, error |-> AttributeError]

\* the tool taken to exist whenever the key is set
tool_whenever_configured ==
    [value |-> settings_complete /\ TAVILY_API_KEY,
     error |-> IF settings_complete THEN NoError ELSE AttributeError]

\* get_tavily_tool(max_results) is not None, or the exception of
\* is_tavily_configured() at its first line
tavily_tool_available ==
    [value |-> is_tavily_configured.value /\ tavily_importable,
     error |-> is_tavily_configured.error]

\* the defaults are read from settings where the state has no value, then
\* is_tavily_configured() is called: a Settings without these fields raises
\* AttributeError at the first of them that is read; the log call reads
\* new_state["use_web_fallback"], which the node itself never sets
normalize_input(s) ==
    LET history == ListOr(s, "chat_history")
        kept == SelectSeq(history, LAMBDA m : m.content # "")
    IN  IF is_tavily_configured.error # NoError
        THEN [state |-> s, error |-> is_tavily_configured.error]
        ELSE IF ~Has(s, "use_web_fallback")
        THEN [state |-> s, error |-> KeyError]
        ELSE
        [state |-> Update(s,
            [namespace |-> StrOr(IF Has(s, "namespace") THEN s["namespace"] ELSE "",
                                 PINECONE_NAMESPACE),
             top_k |-> NumOr(s, "top_k", RAG_DEFAULT_TOP_K),
             min_score |-> NumOr(s, "min_score", RAG_MIN_SCORE),
             max_web_results |-> NumOr(s, "max_web_results", RAG_MAX_WEB_RESULTS),
             chat_history |-> [i \in 1..Len(kept) |->
                                 [role |-> kept[i].role, content |-> kept[i].content]],
             retrieved |-> <<>>,
             web_results |-> <<>>,
             timings |-> ensure_timings(s),
             tavily_available |-> is_tavily_configured.value,
             web_fallback_used |-> FALSE]),
         error |-> NoError]

\* float(hit.get("_score") or hit.get("score") or 0.0)
HitScore(hit) == NumOr(hit, "_score", NumOr(hit, "score", 0))

HitFields(hit) == IF Has(hit, "fields") THEN hit["fields"] ELSE EmptyDict

FieldOr(fields, k, default) ==
    IF Has(fields, k) THEN StrOr(fields[k], default) ELSE default

Snippet(hit) ==
    [source |-> FieldOr(HitFields(hit), "source", "unknown"),
     title |-> FieldOr(HitFields(hit), "title", ""),
     url |-> FieldOr(HitFields(hit), "url", ""),
     score |-> HitScore(hit),
     chunk_text |-> FieldOr(HitFields(hit), "chunk_text", "")]

RECURSIVE TopScore(_)
TopScore(hits) ==
    IF hits = <<>> THEN 0 ELSE Max(HitScore(Head(hits)), TopScore(Tail(hits)))

\* the keys of the state read to build the arguments of pinecone_search
SearchArguments == {"namespace", "query", "top_k"}

\* env: [raises, hits, elapsed]; pinecone_search is called unguarded, after
\* _ensure_timings and after its arguments have been read from the state
retrieve_context(s, env) ==
    IF \E k \in SearchArguments : ~Has(s, k)
    THEN [state |-> TimingsEnsured(s), error |-> KeyError]
    ELSE IF env.raises
    THEN [state |-> TimingsEnsured(s), error |-> RawException]
    ELSE [state |-> Update(s,
            [timings |-> Put(ensure_timings(s), "retrieve_ms", ElapsedMs(0, env.elapsed)),
             retrieved |-> [i \in 1..Len(env.hits) |-> Snippet(env.hits[i])],
             top_score |-> TopScore(env.hits)]),
          error |-> NoError]

\* the decision with top_score <= min_score in place of top_score < min_score
decide_next_inclusive(s) ==
    LET should_use_web == /\ Flag(s, "use_web_fallback")
                          /\ Flag(s, "tavily_available")
                          /\ (ListOr(s, "retrieved") = <<>>
                              \/ NumOr(s, "top_score", 0) <= NumOr(s, "min_score", 0))
    IN  [state |-> Put(s, "web_fallback_used", should_use_web), error |-> NoError]

decide_next(s) ==
    LET use_web == Flag(s, "use_web_fallback")
        tavily_available == Flag(s, "tavily_available")
        retrieved == ListOr(s, "retrieved")
        min_score == NumOr(s, "min_score", 0)
        top_score == NumOr(s, "top_score", 0)
        should_use_web == /\ use_web
                          /\ tavily_available
                          /\ (retrieved = <<>> \/ top_score < min_score)
    IN  [state |-> Put(s, "web_fallback_used", should_use_web), error |-> NoError]

\* the routing that searches the web whatever was decided
route_always_web(s) == "web_search"

\* the routing with its two branches exchanged
route_inverted(s) ==
    IF Flag(s, "web_fallback_used") THEN "generate_answer" ELSE "web_search"

route_after_decide_next(s) ==
    IF Flag(s, "web_fallback_used") THEN "web_search" ELSE "generate_answer"

WebSnippet(item) ==
    [source |-> "web",
     title |-> StrOr(FieldOr(item, "title", ""), FieldOr(item, "url", "")),
     url |-> FieldOr(item, "url", ""),
     score |-> 0,
     chunk_text |-> StrOr(FieldOr(item, "content", ""), FieldOr(item, "snippet", ""))]

\* env: [raises, is_list, items, elapsed]; results that are not a list have
\* no "data" attribute and give no hit.  state["query"] is read inside the
\* try, so a state without it fails as the tool does, no call made
web_search(s, env) ==
    LET timings == ensure_timings(s)
    IN  IF tavily_tool_available.error # NoError
        THEN [state |-> TimingsEnsured(s), error |-> tavily_tool_available.error]
        ELSE IF ~tavily_tool_available.value
        THEN [state |-> Update(s,
                [timings |-> IF Has(timings, "web_ms") THEN timings
                             ELSE Put(timings, "web_ms", 0),
                 web_results |-> <<>>]),
              error |-> NoError]
        ELSE IF ~Has(s, "query")
        THEN [state |-> Put(s, "timings", Put(timings, "web_ms", 0)),
              error |-> UpstreamServiceError("Tavily")]
        ELSE IF env.raises
        THEN [state |-> Put(s, "timings",
                            Put(timings, "web_ms", ElapsedMs(0, env.elapsed))),
              error |-> UpstreamServiceError("Tavily")]
        ELSE [state |-> Update(s,
                [timings |-> Put(timings, "web_ms", ElapsedMs(0, env.elapsed)),
                 web_results |-> IF env.is_list
                                 THEN [i \in 1..Len(env.items) |-> WebSnippet(env.items[i])]
                                 ELSE <<>>]),
              error |-> NoError]

\* str(response) of a message whose content is empty: the text of the
\* message object, its fields one after the other, the empty content first
StrOfEmptyMessage == "content='' additional_kwargs={} response_metadata={}"

\* get_llm(): the client, or the exception it raises before any call is made
get_llm ==
    IF ~settings_complete THEN AttributeError
    ELSE IF ~GROQ_API_KEY THEN RuntimeError
    ELSE NoError

\* env: [raises, answer, elapsed]; state["query"] and get_llm() come after
\* _ensure_timings and before the try, so what they raise is not wrapped
generate_answer(s, env) ==
    LET timings == ensure_timings(s)
    IN  IF ~Has(s, "query")
        THEN [state |-> TimingsEnsured(s), error |-> KeyError]
        ELSE IF get_llm # NoError
        THEN [state |-> TimingsEnsured(s), error |-> get_llm]
        ELSE IF env.raises
        THEN [state |-> Put(s, "timings",
                            Put(timings, "generate_ms", ElapsedMs(0, env.elapsed))),
              error |-> UpstreamServiceError("Groq")]
        ELSE [state |-> Update(s,
                [timings |-> Put(timings, "generate_ms", ElapsedMs(0, env.elapsed)),
                 answer |-> StrOr(env.answer, StrOfEmptyMessage)]),
              error |-> NoError]

format_response(s) == [state |-> s, error |-> NoError]

\* get_chat_graph(): the entry point and the edges
EntryPoint == "normalize_input"

END == "__end__"

\* the edges with one from web_search back to retrieve_context
SuccessorRetrievingAgain(node, s) ==
    CASE node = "normalize_input" -> "retrieve_context"
      [] node = "retrieve_context" -> "decide_next"
      [] node = "decide_next" -> route_after_decide_next(s)
      [] node = "web_search" -> "retrieve_context"
      [] node = "generate_answer" -> "format_response"
      [] node = "format_response" -> END

\* the edges with format_response leading back to generate_answer
SuccessorGeneratingAgain(node, s) ==
    CASE node = "normalize_input" -> "retrieve_context"
      [] node = "retrieve_context" -> "decide_next"
      [] node = "decide_next" -> route_after_decide_next(s)
      [] node = "web_search" -> "generate_answer"
      [] node = "generate_answer" -> "format_response"
      [] node = "format_response" -> "generate_answer"

Successor(node, s) ==
    CASE node = "normalize_input" -> "retrieve_context"
      [] node = "retrieve_context" -> "decide_next"
      [] node = "decide_next" -> route_after_decide_next(s)
      [] node = "web_search" -> "generate_answer"
      [] node = "generate_answer" -> "format_response"
      [] node = "format_response" -> END

Nodes == {"normalize_input", "retrieve_context", "decide_next", "web_search",
          "generate_answer", "format_response"}

\* what the node named node makes of s; env: [retrieve, web, llm]
RunNode(node, s, env) ==
    CASE node = "normalize_input" -> normalize_input(s)
      [] node = "retrieve_context" -> retrieve_context(s, env.retrieve)
      [] node = "decide_next" -> decide_next(s)
      [] node = "web_search" -> web_search(s, env.web)
      [] node = "generate_answer" -> generate_answer(s, env.llm)
      [] node = "format_response" -> format_response(s)

\* the seconds the node's external call takes, none when the node raises or
\* returns before it makes the call
NodeSeconds(node, s, env) ==
    CASE node = "retrieve_context" -> IF \A k \in SearchArguments : Has(s, k)
                                      THEN env.retrieve.elapsed ELSE 0
      [] node = "web_search" -> IF tavily_tool_available.value /\ Has(s, "query")
                                THEN env.web.elapsed ELSE 0
      [] node = "generate_answer" -> IF Has(s, "query") /\ get_llm = NoError
                                     THEN env.llm.elapsed ELSE 0
      [] OTHER -> 0


\* graph.invoke(initial_state) with the outside world answering as env: the
\* nodes run one after the other along the edges, until END, an exception
\* or LangGraph's recursion limit.  Gives the final state, the exception,
\* the nodes run and the seconds spent in external calls.
RECURSIVE Invoke(_, _, _, _, _)
Invoke(node, s, env, trace, secs) ==
    IF node = END
    THEN [state |-> s, error |-> NoError, stages |-> trace, seconds |-> secs]
    ELSE IF Len(trace) >= RecursionLimit
    THEN [state |-> s, error |-> [type |-> "GraphRecursionError", service |-> ""],
          stages |-> trace, seconds |-> secs]
    ELSE LET out == RunNode(node, s, env)
             spent == secs + NodeSeconds(node, s, env)
         IN  IF out.error # NoError
             THEN [state |-> out.state, error |-> out.error,
                   stages |-> Append(trace, node), seconds |-> spent]
             ELSE Invoke(Successor(node, out.state), out.state, env,
                         Append(trace, node), spent)

(***************************************************************************)
(* routers/chat.py                                                         *)
(***************************************************************************)
\* namespace = payload.namespace or settings.PINECONE_NAMESPACE
NamespaceOf(p) == StrOr(p.namespace, PINECONE_NAMESPACE)

\* the handler using the cache whatever the conversation history
use_cache_with_history(p) == CACHE_ENABLED

\* use_cache = cache_enabled() and not payload.chat_history
use_cache(p) == CACHE_ENABLED /\ p.chat_history = <<>>

ChatKeyOf(p) ==
    MakeChatKey(NamespaceOf(p), p.query, p.top_k, p.min_score, p.use_web_fallback)

\* an initial state that takes its query from the request in slot 1
initial_state_of_first_slot(p) ==
    [query |-> IF Has(payload[1], "query") THEN payload[1].query ELSE p.query,
     namespace |-> NamespaceOf(p),
     top_k |-> p.top_k,
     use_web_fallback |-> p.use_web_fallback,
     min_score |-> p.min_score,
     max_web_results |-> p.max_web_results,
     chat_history |-> <<>>]

\* initial_state = {...} (lines 124-135)
initial_state(p) ==
    [query |-> p.query,
     namespace |-> NamespaceOf(p),
     top_k |-> p.top_k,
     use_web_fallback |-> p.use_web_fallback,
     min_score |-> p.min_score,
     max_web_results |-> p.max_web_results,
     chat_history |-> [i \in 1..Len(p.chat_history) |->
                         [role |-> p.chat_history[i].role,
                          content |-> p.chat_history[i].content]]]

SourceHit(src) ==
    [source |-> StrOr(src.source, "unknown"),
     title |-> src.title,
     url |-> src.url,
     score |-> src.score,
     chunk_text |-> src.chunk_text]

\* the response with the web snippets ahead of the retrieved ones
build_chat_response_web_first(s) ==
    LET timings_raw == ensure_timings(s)
        sources_raw == ListOr(s, "web_results") \o ListOr(s, "retrieved")
    IN  [answer |-> IF Has(s, "answer") THEN s["answer"] ELSE "",
         sources |-> [i \in 1..Len(sources_raw) |-> SourceHit(sources_raw[i])],
         timings |-> [f \in FieldSet |-> NumOr(timings_raw, f, 0)]]

\* generate_answer: sources=(retrieved or []) + (web_results or []), the
\* snippets build_rag_messages puts into the prompt
rag_sources(s) == ListOr(s, "retrieved") \o ListOr(s, "web_results")

build_chat_response(s) ==
    LET timings_raw == ensure_timings(s)
        sources_raw == ListOr(s, "retrieved") \o ListOr(s, "web_results")
    IN  [answer |-> IF Has(s, "answer") THEN s["answer"] ELSE "",
         sources |-> [i \in 1..Len(sources_raw) |-> SourceHit(sources_raw[i])],
         timings |-> [f \in FieldSet |-> NumOr(timings_raw, f, 0)]]

\* what a handler has returned or raised so far
Pending == [kind |-> "pending", status |-> 0, raised |-> FALSE, error |-> NoError,
            body |-> EmptyDict, cached |-> FALSE, stored_at |-> -1]

Response(body, cached) ==
    [kind |-> "response", status |-> 200, raised |-> FALSE, error |-> NoError,
     body |-> body, cached |-> cached, stored_at |-> -1]

\* errors.py: UpstreamServiceError is answered 502 by its handler; any other
\* exception passes the metrics middleware and is answered 500
Failure(error) ==
    [kind |-> "error",
     status |-> IF error.type = "UpstreamServiceError" THEN 502 ELSE 500,
     raised |-> error.type # "UpstreamServiceError",
     error |-> error, body |-> EmptyDict, cached |-> FALSE, stored_at |-> -1]

\* chat(), up to the cache lookup (lines 77-104)
ChatReceive(r, p, t2) ==
    /\ pc[r] = "idle"
    /\ received < MaxRequests
    /\ received' = received + 1
    /\ payload' = [payload EXCEPT ![r] = p]
    /\ state' = [state EXCEPT ![r] = EmptyDict]
    /\ stages' = [stages EXCEPT ![r] = <<>>]
    /\ UNCHANGED <<cfg_vars, other_vars, metric_vars, start_total, completed>>
    /\ IF use_cache(p)
       THEN LET g == GetCached(CACHE_ENABLED, chat_cache, chat_hits, chat_misses,
                               ChatKeyOf(p), now, t2)
            IN  /\ get_chat_cached(ChatKeyOf(p), t2)
                /\ UNCHANGED ops
                /\ pc' = [pc EXCEPT ![r] =
                            CASE g.outcome = "hit" -> "cached"
                              [] g.outcome = "KeyError" -> "respond"
                              [] OTHER -> "invoke"]
                /\ result' = [result EXCEPT ![r] =
                            CASE g.outcome = "hit" -> Response(g.value, TRUE)
                              [] g.outcome = "KeyError" ->
                                    Failure([type |-> "KeyError", service |-> ""])
                              [] OTHER -> Pending]
       ELSE /\ t2 = now
            /\ pc' = [pc EXCEPT ![r] = "invoke"]
            /\ result' = [result EXCEPT ![r] = Pending]
            /\ UNCHANGED <<now, cache_vars>>

\* the cached response returned with no timing sample recorded
ChatServeCachedUnrecorded(r) ==
    /\ pc[r] = "cached"
    /\ pc' = [pc EXCEPT ![r] = "respond"]
    /\ UNCHANGED <<now, cfg_vars, other_vars, cache_vars, metric_vars, payload,
                   state, result, start_total, stages, received, completed>>

\* chat(), a cached response (lines 106-116)
ChatServeCached(r) ==
    /\ pc[r] = "cached"
    /\ record_chat_timings(result[r].body.timings)
    /\ pc' = [pc EXCEPT ![r] = "respond"]
    /\ UNCHANGED <<now, cfg_vars, other_vars, cache_vars, request_counts, error_counts, payload,
                   state, result, start_total, stages, received, completed>>

\* chat(), up to `await run_in_threadpool(_invoke_graph)` (lines 118-143):
\* the clock is read and the run handed to a worker thread, the event loop
\* being free for other requests until the run has returned
ChatInvokeBegin(r) ==
    /\ pc[r] = "invoke"
    /\ start_total' = [start_total EXCEPT ![r] = now]
    /\ pc' = [pc EXCEPT ![r] = "running"]
    /\ UNCHANGED <<now, cfg_vars, other_vars, cache_vars, metric_vars, payload, state,
                   result, stages, received, completed>>

\* graph.invoke on the worker thread from its first to its last node, and
\* the handler resumed with what it returned or raised (line 143): the
\* run's external calls have taken run.seconds of the time since it began
ChatInvoke(r, env) ==
    LET run == Invoke(EntryPoint, initial_state(payload[r]), env, <<>>, 0)
    IN  /\ pc[r] = "running"
        /\ now >= start_total[r] + run.seconds
        /\ UNCHANGED <<now, start_total>>
        /\ stages' = [stages EXCEPT ![r] = run.stages]
        /\ state' = [state EXCEPT ![r] = run.state]
        /\ IF run.error = NoError
           THEN /\ pc' = [pc EXCEPT ![r] = "finish"]
                /\ UNCHANGED result
           ELSE /\ pc' = [pc EXCEPT ![r] = "respond"]
                /\ result' = [result EXCEPT ![r] = Failure(run.error)]
        /\ UNCHANGED <<cfg_vars, other_vars, cache_vars, metric_vars, payload, received, completed>>

\* chat(), graph.invoke entered (lines 118-140)
ChatInvokeStart(r) ==
    /\ pc[r] = "invoke"
    /\ start_total' = [start_total EXCEPT ![r] = now]
    /\ state' = [state EXCEPT ![r] = initial_state(payload[r])]
    /\ pc' = [pc EXCEPT ![r] = EntryPoint]
    /\ UNCHANGED <<now, cfg_vars, other_vars, cache_vars, metric_vars, payload, result, stages,
                   received, completed>>

\* one node of the graph run by LangGraph, the outside world answering env
GraphStep(r, node, env) ==
    LET out == RunNode(node, state[r], env)
        secs == NodeSeconds(node, state[r], env)
        next == Successor(node, out.state)
    IN  /\ pc[r] = node
        /\ now + secs <= MaxTime
        /\ now' = now + secs
        /\ UNCHANGED <<cfg_vars, other_vars, cache_vars, metric_vars, payload, start_total,
                       received, completed>>
        /\ IF Len(stages[r]) >= RecursionLimit
           THEN /\ pc' = [pc EXCEPT ![r] = "respond"]
                /\ result' = [result EXCEPT ![r] =
                                Failure([type |-> "GraphRecursionError", service |-> ""])]
                /\ UNCHANGED <<state, stages>>
           ELSE /\ stages' = [stages EXCEPT ![r] = Append(@, node)]
                /\ state' = [state EXCEPT ![r] = out.state]
                /\ IF out.error = NoError
                   THEN /\ pc' = [pc EXCEPT ![r] = IF next = END THEN "finish" ELSE next]
                        /\ UNCHANGED result
                   ELSE /\ pc' = [pc EXCEPT ![r] = "respond"]
                        /\ result' = [result EXCEPT ![r] = Failure(out.error)]

\* chat(), after graph.invoke, in one turn of the event loop: the total, the
\* response, the timing sample and the cache store (lines 145-187)
ChatFinish(r) ==
    LET timings == Put(ensure_timings(state[r]), "total_ms",
                       ElapsedMs(start_total[r], now))
        response_model == build_chat_response(Put(state[r], "timings", timings))
    IN  /\ pc[r] = "finish"
        /\ record_chat_timings(response_model.timings)
        /\ state' = [state EXCEPT ![r] = Put(@, "timings", timings)]
        /\ IF use_cache(payload[r])
           THEN /\ set_chat_cached(ChatKeyOf(payload[r]), response_model)
                /\ result' = [result EXCEPT ![r] =
                                [Response(response_model, FALSE) EXCEPT !.stored_at = now]]
           ELSE /\ result' = [result EXCEPT ![r] = Response(response_model, FALSE)]
                /\ UNCHANGED <<search_cache, chat_cache, search_hits, search_misses,
                               chat_hits, chat_misses, cache_op, stored, recent>>
        /\ pc' = [pc EXCEPT ![r] = "respond"]
        /\ UNCHANGED <<now, cfg_vars, other_vars, request_counts, error_counts, payload,
                       start_total, stages, received, completed, ops>>

\* metrics_middleware, once the handler has returned or raised
ChatRespond(r) ==
    /\ pc[r] = "respond"
    /\ count_request("/chat", result[r].status, result[r].raised)
    /\ completed' = IF result[r].stored_at >= 0
                    THEN Put(completed, ChatKeyOf(payload[r]),
                             [body |-> result[r].body, at |-> result[r].stored_at,
                              request |-> payload[r]])
                    ELSE completed
    /\ pc' = [pc EXCEPT ![r] = "idle"]
    /\ payload' = [payload EXCEPT ![r] = EmptyDict]
    /\ state' = [state EXCEPT ![r] = EmptyDict]
    /\ result' = [result EXCEPT ![r] = EmptyDict]
    /\ stages' = [stages EXCEPT ![r] = <<>>]
    /\ start_total' = [start_total EXCEPT ![r] = 0]
    /\ UNCHANGED <<now, cfg_vars, other_vars, cache_vars, timing_samples, timing_sums,
                   timing_count, recorded, received>>


(***************************************************************************)
(* What the outside world may answer.                                      *)
(***************************************************************************)
Hit(score, title) ==
    [_score |-> score,
     fields |-> [title |-> title, source |-> "wiki", url |-> "", chunk_text |-> "text"]]

\* no hit; a weak one; one at the default threshold; strong ones in either
\* order; one of negative similarity
HitLists == {<<>>, <<Hit(10, "a")>>, <<Hit(25, "a")>>,
             <<Hit(90, "a"), Hit(10, "b")>>, <<Hit(10, "a"), Hit(90, "b")>>,
             <<Hit(-10, "a")>>}

Durations == {0, TickSeconds}

RetrieveEnvs ==
    {[raises |-> TRUE, hits |-> <<>>, elapsed |-> 0]}
    \cup {[raises |-> FALSE, hits |-> h, elapsed |-> d] : h \in HitLists, d \in Durations}

WebItem(title) == [title |-> title, url |-> "http://w", content |-> "web text"]

WebEnvs ==
    {[raises |-> TRUE, is_list |-> TRUE, items |-> <<>>, elapsed |-> 0],
     [raises |-> FALSE, is_list |-> FALSE, items |-> <<>>, elapsed |-> 0]}
    \cup {[raises |-> FALSE, is_list |-> TRUE, items |-> i, elapsed |-> d] :
            i \in {<<>>, <<WebItem("w1"), WebItem("")>>}, d \in Durations}

LlmEnvs ==
    {[raises |-> TRUE, answer |-> "", elapsed |-> 0]}
    \cup {[raises |-> FALSE, answer |-> a, elapsed |-> d] : a \in Answers, d \in Durations}

QuietEnv ==
    [retrieve |-> [raises |-> FALSE, hits |-> <<Hit(90, "a")>>, elapsed |-> 0],
     web |-> [raises |-> FALSE, is_list |-> TRUE, items |-> <<WebItem("w1")>>, elapsed |-> 0],
     llm |-> [raises |-> FALSE, answer |-> "a1", elapsed |-> 0]]

\* the answers given to the concurrent requests of Spec: two runs that
\* differ in answer and duration, and one that fails
RunEnvs ==
    {QuietEnv,
     [QuietEnv EXCEPT !.llm.answer = "a2", !.llm.elapsed = TickSeconds],
     [QuietEnv EXCEPT !.llm.raises = TRUE]}

(***************************************************************************)
(* The requests.                                                           *)
(***************************************************************************)
BasePayload ==
    [query |-> "q1", namespace |-> "", top_k |-> 5, use_web_fallback |-> TRUE,
     min_score |-> 25, max_web_results |-> 5, chat_history |-> <<>>]

History == <<[role |-> "user", content |-> "hi"], [role |-> "assistant", content |-> ""]>>

\* one request per query, none with a conversation history
Payloads == {[BasePayload EXCEPT !.query = q] : q \in Queries(ChatCacheMaxSize)}

\* the requests of a single run: every field takes a set and an unset value
WidePayloads ==
    {[query |-> "q1", namespace |-> ns, top_k |-> 5, use_web_fallback |-> w,
      min_score |-> m, max_web_results |-> 5, chat_history |-> h] :
        ns \in {"", "ns2"}, w \in BOOLEAN, m \in {0, 25, 50}, h \in {<<>>, History}}

\* a request takes the first free slot
FirstFree(r) == pc[r] = "idle" /\ \A q \in Slots : q < r => pc[q] # "idle"

(***************************************************************************)
(* Spec: concurrent /chat requests, each graph run one step.               *)
(***************************************************************************)
Receive == \E r \in Slots, p \in Payloads, t2 \in Later :
              FirstFree(r) /\ ChatReceive(r, p, t2)

ServeCached == \E r \in Slots : ChatServeCached(r)

InvokeBegin == \E r \in Slots : ChatInvokeBegin(r)

InvokeGraph == \E r \in Slots, env \in RunEnvs : ChatInvoke(r, env)

Finish == \E r \in Slots : ChatFinish(r)

Respond == \E r \in Slots : ChatRespond(r)

Init ==
    /\ InitShared
    /\ fetch = NoFetch
    /\ workload = <<>>
    /\ cache_op = NoOp
    /\ CACHE_ENABLED = TRUE
    /\ settings_complete \in BOOLEAN
    /\ GROQ_API_KEY = settings_complete
    /\ TAVILY_API_KEY = settings_complete
    /\ tavily_importable = TRUE

Next == Receive \/ ServeCached \/ InvokeBegin \/ InvokeGraph \/ Finish \/ Respond \/ Tick

Spec == Init /\ [][Next]_vars

(***************************************************************************)
(* SpecHeld: a caller keeps the dict get_metrics_snapshot returned while   *)
(* requests go on being counted and timings recorded.  What the dict holds *)
(* is an object: a new one, or one of the module's own.                    *)
(***************************************************************************)
\* the module-level object of that name, as it is now
Object(name) ==
    CASE name = "_request_counts" -> request_counts
      [] name = "_error_counts" -> error_counts
      [] name = "_timing_samples" -> timing_samples
      [] name = "_timing_sums" -> timing_sums

\* the module's object itself, not a copy of it
same_object(name) == [object |-> name, value |-> <<>>]

\* dict(d): a new dict with the items d has now
dict(name) == [object |-> "", value |-> Object(name)]

\* list(d): a new list with the items d has now
list(name) == [object |-> "", value |-> Object(name)]

\* what a reader finds in the object now
Deref(ref) == IF ref.object = "" THEN ref.value ELSE Object(ref.object)

\* the returned dict as its holder reads it now
ReadSnapshot(returned) ==
    [returned EXCEPT !.requests_by_path = Deref(@),
                     !.errors_by_path = Deref(@),
                     !.samples = Deref(@)]

\* get_metrics_snapshot, lines 82-87: the copies taken under metrics._lock
SnapshotTakeCopy ==
    /\ ~held.taken
    /\ held.copied = <<>>
    /\ held' = [held EXCEPT !.copied =
                  [requests_by_path |-> dict("_request_counts"),
                   errors_by_path |-> dict("_error_counts"),
                   samples |-> list("_timing_samples"),
                   sums |-> dict("_timing_sums"),
                   count |-> timing_count]]
    /\ UNCHANGED <<now, cfg_vars, cache_vars, metric_vars, chat_vars, snap_vars,
                   fetch, lock_vars, events, auth, stats>>

\* the dict returned by lines 89-123, the lock released: the figures
\* computed from the copies, the cache counters as they are by then, and
\* the copies of the two counters and of the buffer themselves
SnapshotOfCopies(copied) ==
    LET values == SnapshotCopied(Deref(copied.requests_by_path),
                                 Deref(copied.errors_by_path),
                                 Deref(copied.samples), Deref(copied.sums),
                                 copied.count)
    IN  [SnapshotComputed(values, get_cache_stats)
            EXCEPT !.requests_by_path = copied.requests_by_path,
                   !.errors_by_path = copied.errors_by_path,
                   !.samples = copied.samples]

\* get_metrics_snapshot, lines 89-123, and the caller keeping what it returns
SnapshotTakeReturn ==
    /\ ~held.taken
    /\ held.copied # <<>>
    /\ held' = [taken |-> TRUE, copied |-> <<>>,
                returned |-> SnapshotOfCopies(held.copied),
                read |-> ReadSnapshot(SnapshotOfCopies(held.copied))]
    /\ UNCHANGED <<now, cfg_vars, cache_vars, metric_vars, chat_vars, snap_vars,
                   fetch, lock_vars, events, auth, stats>>

\* the caller lets go of it
SnapshotDrop ==
    /\ held.taken
    /\ held' = NoSnapshot
    /\ UNCHANGED <<now, cfg_vars, cache_vars, metric_vars, chat_vars, snap_vars,
                   fetch, lock_vars, events, auth, stats>>

\* the chat response another thread's first lookup misses
HeldKey == MakeChatKey(PINECONE_NAMESPACE, "q1", 5, 25, TRUE)

\* another thread caches the response it built after its miss
HeldStore ==
    /\ chat_misses > 0
    /\ HeldKey \notin CacheKeys(chat_cache)
    /\ set_chat_cached(HeldKey, "a")
    /\ UNCHANGED <<now, ops, cfg_vars, other_vars, metric_vars, chat_vars>>

\* another thread looks a chat response up: a miss, or a hit once stored
HeldLookup ==
    /\ chat_hits + chat_misses < MaxCounted
    /\ get_chat_cached(HeldKey, now)
    /\ UNCHANGED <<ops, cfg_vars, other_vars, metric_vars, chat_vars>>

InitHeld ==
    /\ InitShared
    /\ fetch = NoFetch
    /\ workload \in FiveLoads
    /\ cache_op = NoOp
    /\ CACHE_ENABLED = TRUE
    /\ TAVILY_API_KEY = FALSE
    /\ tavily_importable = FALSE
    /\ settings_complete = TRUE
    /\ GROQ_API_KEY = TRUE

NextHeld ==
    \/ RecordNext \/ CountRequest \/ HeldLookup \/ HeldStore
    \/ SnapshotTakeCopy \/ SnapshotTakeReturn \/ SnapshotDrop

SpecHeld == InitHeld /\ [][NextHeld]_vars

(***************************************************************************)
(* SpecShare: /chat requests one after the other, each differing from the  *)
(* first in at most one field of the request.                              *)
(***************************************************************************)
SharePayloads ==
    {BasePayload,
     [BasePayload EXCEPT !.query = "q2"],
     [BasePayload EXCEPT !.namespace = "ns2"],
     [BasePayload EXCEPT !.top_k = 3],
     [BasePayload EXCEPT !.min_score = 50],
     [BasePayload EXCEPT !.use_web_fallback = FALSE],
     [BasePayload EXCEPT !.max_web_results = 1],
     [BasePayload EXCEPT !.chat_history = History]}

ReceiveShare ==
    /\ \A q \in Slots : pc[q] = "idle"
    /\ \E p \in SharePayloads, t2 \in Later : ChatReceive(1, p, t2)

InitShare == Init

NextShare == ReceiveShare \/ ServeCached \/ InvokeBegin \/ InvokeGraph \/ Finish \/ Respond \/ Tick

SpecShare == InitShare /\ [][NextShare]_vars

(***************************************************************************)
(* SpecBypass: one /chat request, with or without a conversation history,  *)
(* beside direct cache operations, the caches enabled or disabled.         *)
(***************************************************************************)
BypassPayloads == {[BasePayload EXCEPT !.chat_history = h] : h \in {<<>>, History}}

ReceiveBypass == /\ received = 0
                 /\ \E p \in BypassPayloads, t2 \in Later : ChatReceive(1, p, t2)

CacheOperation ==
    /\ ops < MaxBypassOps
    /\ (CacheGetChat \/ CacheSetChat \/ CacheGetSearch \/ CacheSetSearch)

InitBypass ==
    /\ InitShared
    /\ fetch = NoFetch
    /\ workload = <<>>
    /\ cache_op \in {[NoOp EXCEPT !.cache = c] : c \in {"pick_chat", "pick_search"}}
    /\ CACHE_ENABLED \in BOOLEAN
    /\ TAVILY_API_KEY = TRUE
    /\ tavily_importable = TRUE
    /\ ChatSettings

NextBypass ==
    CacheOperation \/ ReceiveBypass \/ ServeCached \/ InvokeBegin \/ InvokeGraph \/ Finish
    \/ Respond

SpecBypass == InitBypass /\ [][NextBypass]_vars

(***************************************************************************)
(* SpecRun: one /chat request, its graph run node by node.                 *)
(***************************************************************************)
ReceiveOne == /\ received = 0
              /\ \E p \in WidePayloads, t2 \in Later : ChatReceive(1, p, t2)

InvokeStart == ChatInvokeStart(1)

NormalizeInput == GraphStep(1, "normalize_input", QuietEnv)

RetrieveContext == \E e \in RetrieveEnvs :
                      GraphStep(1, "retrieve_context", [QuietEnv EXCEPT !.retrieve = e])

DecideNext == GraphStep(1, "decide_next", QuietEnv)

WebSearch == \E e \in WebEnvs : GraphStep(1, "web_search", [QuietEnv EXCEPT !.web = e])

GenerateAnswer == \E e \in LlmEnvs :
                     GraphStep(1, "generate_answer", [QuietEnv EXCEPT !.llm = e])

FormatResponse == GraphStep(1, "format_response", QuietEnv)

InitRun ==
    /\ InitShared
    /\ fetch = NoFetch
    /\ workload = <<>>
    /\ cache_op = NoOp
    /\ CACHE_ENABLED = TRUE
    /\ TAVILY_API_KEY \in BOOLEAN
    /\ tavily_importable \in BOOLEAN
    /\ ChatSettings

NextRun ==
    \/ ReceiveOne \/ InvokeStart \/ NormalizeInput \/ RetrieveContext \/ DecideNext
    \/ WebSearch \/ GenerateAnswer \/ FormatResponse \/ Finish \/ Respond

SpecRun == InitRun /\ [][NextRun]_vars

\* SpecRun with a run that goes on: LangGraph runs the next node as soon as
\* the last one has returned, every external call returns or raises, and the
\* handler and the middleware follow graph.invoke in the same request
RunProgress ==
    /\ WF_vars(InvokeStart) /\ WF_vars(NormalizeInput) /\ WF_vars(RetrieveContext)
    /\ WF_vars(DecideNext) /\ WF_vars(WebSearch) /\ WF_vars(GenerateAnswer)
    /\ WF_vars(FormatResponse) /\ WF_vars(Finish) /\ WF_vars(Respond)

SpecRunFair == InitRun /\ [][NextRun]_vars /\ RunProgress

(***************************************************************************)
(* SpecGraph: the compiled graph invoked on an initial state that no       *)
(* request model has validated, its counts negative, zero or positive.     *)
(***************************************************************************)
RawCounts == {-1, 0, 5}

\* the initial states with every key the request handler sets
FullStates ==
    {[query |-> "q1", namespace |-> "", top_k |-> k, use_web_fallback |-> w,
      min_score |-> 25, max_web_results |-> n, chat_history |-> <<>>] :
        k \in RawCounts, w \in BOOLEAN, n \in RawCounts}

\* initial states that lack a key the nodes subscript: the query, read by
\* retrieve_context, or use_web_fallback, read by normalize_input
PartialStates ==
    {[namespace |-> "dev", top_k |-> 5, use_web_fallback |-> TRUE,
      min_score |-> 25, max_web_results |-> 5, chat_history |-> <<>>],
     [query |-> "q1", namespace |-> "dev", top_k |-> 5,
      min_score |-> 25, max_web_results |-> 5, chat_history |-> <<>>]}

RawStates == FullStates \cup PartialStates

\* graph.invoke(initial_state): the run enters at the entry point
InvokeDirect ==
    /\ pc[1] = "idle"
    /\ received = 0
    /\ received' = 1
    /\ \E s \in RawStates : state' = [state EXCEPT ![1] = s]
    /\ pc' = [pc EXCEPT ![1] = EntryPoint]
    /\ result' = [result EXCEPT ![1] = Pending]
    /\ UNCHANGED <<now, cfg_vars, other_vars, cache_vars, metric_vars, payload,
                   start_total, stages, completed>>

InitGraph ==
    /\ InitShared
    /\ fetch = NoFetch
    /\ workload = <<>>
    /\ cache_op = NoOp
    /\ CACHE_ENABLED = TRUE
    /\ TAVILY_API_KEY \in BOOLEAN
    /\ tavily_importable \in BOOLEAN
    /\ ChatSettings

NextGraph ==
    \/ InvokeDirect \/ NormalizeInput \/ RetrieveContext \/ DecideNext
    \/ WebSearch \/ GenerateAnswer \/ FormatResponse

SpecGraph == InitGraph /\ [][NextGraph]_vars

(***************************************************************************)
(* SpecStream: one /chat/stream request: the graph run node by node, then  *)
(* the response built and the events of the stream emitted one by one.     *)
(***************************************************************************)
\* the answers of the language model, of no, one and several words
StreamAnswers == {"", " ", "one", "b a", " a  b a "}

\* str.split() on the answers of the model: the words between runs of
\* whitespace, none for an empty or blank text
split(text) ==
    CASE text = "" -> <<>>
      [] text = " " -> <<>>
      [] text = StrOfEmptyMessage ->
            <<"content=''", "additional_kwargs={}", "response_metadata={}">>
      [] text = "one" -> <<"one">>
      [] text = "b a" -> <<"b", "a">>
      [] text = " a  b a " -> <<"a", "b", "a">>
      [] OTHER -> <<text>>

\* f"data: {token}\n\n"
TokenEvent(token) == [event |-> "message", data |-> token]

\* f"event: end\ndata: {json.dumps(final_payload)}\n\n"
EndEvent(final_payload) == [event |-> "end", data |-> final_payload]

\* the events with the tokens last to first
event_generator_reversed(answer_text, response_model) ==
    LET tokens == split(answer_text)
    IN  [i \in 1..(Len(tokens) + 1) |->
            IF i <= Len(tokens) THEN TokenEvent(tokens[Len(tokens) + 1 - i])
            ELSE EndEvent(response_model)]

\* event_generator(): what it yields, in order
event_generator(answer_text, response_model) ==
    LET tokens == split(answer_text)
    IN  [i \in 1..(Len(tokens) + 1) |->
            IF i <= Len(tokens) THEN TokenEvent(tokens[i])
            ELSE EndEvent(response_model)]

StreamPayloads == {[BasePayload EXCEPT !.use_web_fallback = w] : w \in BOOLEAN}

StreamLlmEnvs ==
    {[raises |-> TRUE, answer |-> "", elapsed |-> 0]}
    \cup {[raises |-> FALSE, answer |-> a, elapsed |-> 0] : a \in StreamAnswers}

\* chat_stream(), up to graph.invoke (lines 200-232)
ReceiveStream ==
    /\ pc[1] = "idle"
    /\ received = 0
    /\ received' = 1
    /\ \E p \in StreamPayloads : payload' = [payload EXCEPT ![1] = p]
    /\ pc' = [pc EXCEPT ![1] = "invoke"]
    /\ result' = [result EXCEPT ![1] = Pending]
    /\ UNCHANGED <<now, cfg_vars, other_vars, cache_vars, metric_vars, state,
                   start_total, stages, completed>>

GenerateStreamAnswer ==
    \E e \in StreamLlmEnvs : GraphStep(1, "generate_answer", [QuietEnv EXCEPT !.llm = e])

\* chat_stream(), after graph.invoke: the total, the response and the timing
\* sample; the generator is handed to StreamingResponse (lines 236-277)
StreamFinish ==
    LET timings == Put(ensure_timings(state[1]), "total_ms",
                       ElapsedMs(start_total[1], now))
        response_model == build_chat_response(Put(state[1], "timings", timings))
    IN  /\ pc[1] = "finish"
        /\ record_chat_timings(response_model.timings)
        /\ state' = [state EXCEPT ![1] = Put(@, "timings", timings)]
        /\ result' = [result EXCEPT ![1] = Response(response_model, FALSE)]
        /\ pc' = [pc EXCEPT ![1] = "stream"]
        /\ UNCHANGED <<now, cfg_vars, other_vars, cache_vars, request_counts,
                       error_counts, payload, start_total, stages, received, completed>>

\* the next event of event_generator() is sent
StreamEmit ==
    LET yielded == event_generator(result[1].body.answer, result[1].body)
    IN  /\ pc[1] = "stream"
        /\ events' = Append(events, yielded[Len(events) + 1])
        /\ pc' = [pc EXCEPT ![1] = IF Len(events) + 1 = Len(yielded)
                                   THEN "streamed" ELSE "stream"]
        /\ UNCHANGED <<now, cfg_vars, cache_vars, metric_vars, snap_vars, fetch,
                       lock_vars, auth, stats, held, payload, state, result, start_total,
                       stages, received, completed>>

InitStream ==
    /\ InitShared
    /\ fetch = NoFetch
    /\ workload = <<>>
    /\ cache_op = NoOp
    /\ CACHE_ENABLED = TRUE
    /\ TAVILY_API_KEY \in BOOLEAN
    /\ tavily_importable = TRUE
    /\ ChatSettings

NextStream ==
    \/ ReceiveStream \/ InvokeStart \/ NormalizeInput \/ RetrieveContext \/ DecideNext
    \/ WebSearch \/ GenerateStreamAnswer \/ FormatResponse \/ StreamFinish \/ StreamEmit

SpecStream == InitStream /\ [][NextStream]_vars

(***************************************************************************)
(* SpecAuth: one request through the API key checks of the assembled       *)
(* application: APIKeyMiddleware, the route table, and the require_api_key *)
(* dependency of the routers.  A path is the sequence of its characters.   *)
(***************************************************************************)
\* "/chat"
ChatPath == <<"/", "c", "h", "a", "t">>

\* "/chat/stream"
ChatStreamPath == <<"/", "c", "h", "a", "t", "/", "s", "t", "r", "e", "a", "m">>

\* "/search"
SearchPath == <<"/", "s", "e", "a", "r", "c", "h">>

\* "/ingest/arxiv"
IngestArxivPath == <<"/", "i", "n", "g", "e", "s", "t", "/", "a", "r", "x", "i", "v">>

\* "/documents/stats"
DocumentsStatsPath == <<"/", "d", "o", "c", "u", "m", "e", "n", "t", "s", "/", "s", "t", "a", "t", "s">>

\* "/health"
HealthPath == <<"/", "h", "e", "a", "l", "t", "h">>

\* "/docs"
DocsPath == <<"/", "d", "o", "c", "s">>

\* "/openapi.json"
OpenapiPath == <<"/", "o", "p", "e", "n", "a", "p", "i", ".", "j", "s", "o", "n">>

\* "/redoc"
RedocPath == <<"/", "r", "e", "d", "o", "c">>

\* "/metrics"
MetricsPath == <<"/", "m", "e", "t", "r", "i", "c", "s">>

\* "/chats"
UnroutedChatPath == <<"/", "c", "h", "a", "t", "s">>

\* "/"
RootPath == <<"/">>

\* path.startswith(prefix)
startswith(path, prefix) ==
    Len(prefix) <= Len(path) /\ SubSeq(path, 1, Len(prefix)) = prefix

\* self._protected_prefixes
protected_prefixes == {<<"/", "i", "n", "g", "e", "s", "t">>,
                       <<"/", "d", "o", "c", "u", "m", "e", "n", "t", "s">>,
                       <<"/", "c", "h", "a", "t">>,
                       <<"/", "s", "e", "a", "r", "c", "h">>}

\* self._public_prefixes
public_prefixes == {<<"/", "h", "e", "a", "l", "t", "h">>,
                    <<"/", "d", "o", "c", "s">>,
                    <<"/", "o", "p", "e", "n", "a", "p", "i", ".", "j", "s", "o", "n">>,
                    <<"/", "r", "e", "d", "o", "c">>,
                    <<"/", "m", "e", "t", "r", "i", "c", "s">>}

\* the values of the environment variable API_KEY: unset, a key, and the
\* same key between blanks
ApiKeys == {"", "k", " k "}

\* the X-API-Key header of a request: absent, the key, another value
Headers == {"", "k", "x"}

\* raw.strip() on the values of API_KEY
strip(raw) == IF raw = " k " THEN "k" ELSE raw

\* a middleware that lets every request through
dispatch_open(path, header_key, api_key) == "call_next"

\* APIKeyMiddleware.dispatch: "call_next" or the status of its own response
dispatch(path, header_key, api_key) ==
    IF \E prefix \in public_prefixes : startswith(path, prefix) THEN "call_next"
    ELSE IF ~(\E prefix \in protected_prefixes : startswith(path, prefix))
    THEN "call_next"
    ELSE IF header_key = "" \/ header_key # api_key THEN "401"
    ELSE "call_next"

\* configure_security: the middleware is added only when API_KEY is set
middleware_installed(raw) == raw # ""

\* _get_configured_api_key(), "" for None
get_configured_api_key(raw) == strip(raw)

\* require_api_key: "ok" or the status of the HTTPException it raises
require_api_key(api_key, raw) ==
    LET configured == get_configured_api_key(raw)
    IN  IF configured = "" THEN "ok"
        ELSE IF api_key = "" THEN "403"
        ELSE IF api_key # configured THEN "403"
        ELSE "ok"

\* the routes of the application: FastAPI's own documentation routes and
\* those of the routers, with the dependencies main.py includes them with
Routes ==
    {[path |-> DocsPath, handler |-> "swagger_ui_html", depends |-> FALSE],
     [path |-> OpenapiPath, handler |-> "openapi", depends |-> FALSE],
     [path |-> RedocPath, handler |-> "redoc_html", depends |-> FALSE],
     [path |-> HealthPath, handler |-> "health", depends |-> FALSE],
     [path |-> IngestArxivPath, handler |-> "ingest_arxiv", depends |-> TRUE],
     [path |-> SearchPath, handler |-> "search", depends |-> TRUE],
     [path |-> DocumentsStatsPath, handler |-> "documents_stats", depends |-> TRUE],
     [path |-> ChatPath, handler |-> "chat", depends |-> TRUE],
     [path |-> ChatStreamPath, handler |-> "chat_stream", depends |-> TRUE],
     [path |-> MetricsPath, handler |-> "metrics", depends |-> TRUE]}

RequestPaths == {route.path : route \in Routes} \cup {UnroutedChatPath, RootPath}

RouteOfPath(path) == {route \in Routes : route.path = path}

AuthFrame ==
    UNCHANGED <<now, cfg_vars, cache_vars, metric_vars, chat_vars, snap_vars, fetch,
                lock_vars, events, stats, held>>

\* the application starts with API_KEY as the environment has it
ConfigureSecurity ==
    /\ auth.phase = "startup"
    /\ \E raw \in ApiKeys : auth' = [auth EXCEPT !.API_KEY = raw, !.phase = "idle"]
    /\ AuthFrame

\* a request arrives
AuthRequest ==
    /\ auth.phase \in {"idle", "done"}
    /\ \E path \in RequestPaths, header \in Headers :
          auth' = [auth EXCEPT !.phase = "middleware", !.path = path,
                               !.header = header, !.status = 0, !.handler = "",
                               !.checks = <<>>]
    /\ AuthFrame

\* the request passes APIKeyMiddleware, where it is installed
MiddlewareDispatch ==
    /\ auth.phase = "middleware"
    /\ IF ~middleware_installed(auth.API_KEY)
       THEN auth' = [auth EXCEPT !.phase = "routing"]
       ELSE IF dispatch(auth.path, auth.header, auth.API_KEY) = "call_next"
       THEN auth' = [auth EXCEPT !.phase = "routing",
                                 !.checks = Append(@, "middleware")]
       ELSE auth' = [auth EXCEPT !.phase = "done", !.status = 401,
                                 !.checks = Append(@, "middleware")]
    /\ AuthFrame

\* the router matches the path: no route answers 404
RouteRequest ==
    /\ auth.phase = "routing"
    /\ IF RouteOfPath(auth.path) = {}
       THEN auth' = [auth EXCEPT !.phase = "done", !.status = 404]
       ELSE LET route == CHOOSE r \in RouteOfPath(auth.path) : TRUE
            IN  auth' = [auth EXCEPT !.phase = IF route.depends THEN "dependency"
                                               ELSE "handler"]
    /\ AuthFrame

\* the dependency of the router runs before the handler
RequireApiKey ==
    /\ auth.phase = "dependency"
    /\ IF require_api_key(auth.header, auth.API_KEY) = "ok"
       THEN auth' = [auth EXCEPT !.phase = "handler",
                                 !.checks = Append(@, "dependency")]
       ELSE auth' = [auth EXCEPT !.phase = "done", !.status = 403,
                                 !.checks = Append(@, "dependency")]
    /\ AuthFrame

\* the handler of the route is invoked and answers
RunHandler ==
    /\ auth.phase = "handler"
    /\ LET route == CHOOSE r \in RouteOfPath(auth.path) : TRUE
       IN  auth' = [auth EXCEPT !.phase = "done", !.status = 200,
                                !.handler = route.handler]
    /\ AuthFrame

InitAuth ==
    /\ InitShared
    /\ fetch = NoFetch
    /\ workload = <<>>
    /\ cache_op = NoOp
    /\ CACHE_ENABLED = TRUE
    /\ TAVILY_API_KEY = TRUE
    /\ tavily_importable = TRUE
    /\ settings_complete = TRUE
    /\ GROQ_API_KEY = TRUE

NextAuth ==
    \/ ConfigureSecurity \/ AuthRequest \/ MiddlewareDispatch \/ RouteRequest
    \/ RequireApiKey \/ RunHandler

SpecAuth == InitAuth /\ [][NextAuth]_vars

(***************************************************************************)
(* SpecStats: get_cache_stats beside the lookups and puts of the chat      *)
(* handler.  get_cache_stats takes no lock and reads the four counters one *)
(* by one; its only caller is get_metrics_snapshot, called by the metrics  *)
(* handler, and the only lookups and puts are those of the chat handler.   *)
(* Both handlers are coroutines that call them with no await, so both run  *)
(* on the event-loop thread, one at a time.  get_search_cached has no      *)
(* caller and the search counters stay as they are.                        *)
(***************************************************************************)
\* the keys of the dict get_cache_stats builds, in the order it reads them
CacheStatFields == <<"search_hits", "search_misses", "chat_hits", "chat_misses">>

\* the four counters as the cache holds them now
Counters ==
    [search_hits |-> search_hits, search_misses |-> search_misses,
     chat_hits |-> chat_hits, chat_misses |-> chat_misses]

StatsKeys == {MakeChatKey(PINECONE_NAMESPACE, q, 5, 25, TRUE) : q \in {"q1", "q2"}}

\* the lookups and puts run on threads of their own
LoopNeverHeld == TRUE

\* the event-loop thread is free for the chat handler: the metrics handler
\* is not between the first read of get_cache_stats and its return
EventLoopFree == stats.pos \notin 1..Len(CacheStatFields)

\* the states of the cache passed while the call is under way
SeenAfter == IF stats.pos \in 1..Len(CacheStatFields)
             THEN [stats EXCEPT !.seen = @ \cup {Counters'}]
             ELSE stats

StatsFrame ==
    UNCHANGED <<cfg_vars, metric_vars, chat_vars, snap_vars, fetch, lock_vars,
                events, auth, held>>

\* the sequence without its i-th element
Without(seq, i) == SubSeq(seq, 1, i - 1) \o SubSeq(seq, i + 1, Len(seq))

\* the chat handler looks a response up (routers/chat.py 88-97): on a hit it
\* returns the response; on a miss the request goes on to run the graph
\* and is one of those that may store under the key
StatsGetChat ==
    /\ EventLoopFree
    /\ ops < MaxStatsOps
    /\ ops' = ops + 1
    /\ \E key \in StatsKeys :
          /\ get_chat_cached(key, now)
          /\ stats' = [SeenAfter EXCEPT !.missed =
                          IF cache_op'.outcome = "miss" THEN Append(@, key) ELSE @]
    /\ StatsFrame

\* the chat handler stores the response of a request whose own lookup
\* missed and whose run has returned (routers/chat.py 177-185); a request
\* whose run failed stores nothing
StatsSetChat ==
    /\ EventLoopFree
    /\ ops < MaxStatsOps
    /\ ops' = ops + 1
    /\ \E i \in 1..Len(stats.missed) :
          /\ set_chat_cached(stats.missed[i], CannedResponse("a1"))
          /\ stats' = [SeenAfter EXCEPT !.missed = Without(@, i)]
    /\ UNCHANGED now
    /\ StatsFrame

\* get_metrics_snapshot calls get_cache_stats (metrics.py line 110)
StatsBegin ==
    /\ stats.pos = 0
    /\ stats' = [stats EXCEPT !.pos = 1, !.values = EmptyDict, !.seen = {Counters}]
    /\ UNCHANGED <<now, cache_vars>>
    /\ StatsFrame

\* one global is read into the dict under construction; after the fourth
\* the dict is returned
StatsRead ==
    /\ stats.pos \in 1..Len(CacheStatFields)
    /\ stats' = [stats EXCEPT !.pos = @ + 1,
                              !.values = Put(@, CacheStatFields[stats.pos],
                                             Counters[CacheStatFields[stats.pos]])]
    /\ UNCHANGED <<now, cache_vars>>
    /\ StatsFrame

InitStats ==
    /\ InitShared
    /\ fetch = NoFetch
    /\ workload = <<>>
    /\ cache_op = NoOp
    /\ CACHE_ENABLED = TRUE
    /\ TAVILY_API_KEY = FALSE
    /\ tavily_importable = FALSE
    /\ settings_complete = TRUE
    /\ GROQ_API_KEY = TRUE

NextStats == StatsGetChat \/ StatsSetChat \/ StatsBegin \/ StatsRead

SpecStats == InitStats /\ [][NextStats]_vars

(***************************************************************************)
(* services/ingestors: the fetch functions and the tenacity retry around   *)
(* each.  What the upstream does to one attempt is an outcome: the request *)
(* fails on the network or times out, or a response arrives with a status  *)
(* and a body that parses or does not.                                     *)
(***************************************************************************)
NetworkFailure == [kind |-> "network", status |-> 0]

TimedOut == [kind |-> "timeout", status |-> 0]

Answered(status) == [kind |-> "http", status |-> status]

\* status 200 and a body that is not JSON
Malformed == [kind |-> "malformed", status |-> 200]

Outcomes ==
    {NetworkFailure, TimedOut, Malformed}
        \cup {Answered(st) : st \in {200, 400, 403, 404, 429, 500, 503}}

NoException == [type |-> "none", status |-> 0]

\* httpx.ConnectError, httpx.ReadTimeout ...: subclasses of httpx.RequestError
RequestError == [type |-> "RequestError", status |-> 0]

\* response.raise_for_status() on a 4xx or 5xx response
HTTPStatusError(status) == [type |-> "HTTPStatusError", status |-> status]

WikimediaRestTransientError(status) ==
    [type |-> "WikimediaRestTransientError", status |-> status]

\* response.json() on a body that is not JSON
JSONDecodeError == [type |-> "JSONDecodeError", status |-> 200]

\* client.get(...): the request itself fails
GetFails(o) == o.kind \in {"network", "timeout"}

\* one run of the body of _fetch_arxiv_feed: the exception it raises, if any
fetch_arxiv_feed(o) ==
    IF GetFails(o) THEN RequestError
    ELSE IF o.status # 200 THEN HTTPStatusError(o.status)
    ELSE NoException

\* one run of the body of _fetch_openalex_works
fetch_openalex_works(o) ==
    IF GetFails(o) THEN RequestError
    ELSE IF o.status >= 400 THEN HTTPStatusError(o.status)
    ELSE IF o.kind = "malformed" THEN JSONDecodeError
    ELSE NoException

\* one run of the body of _fetch_summary
fetch_summary(o) ==
    IF GetFails(o) THEN RequestError
    ELSE IF o.status \in {404, 403} THEN NoException
    ELSE IF o.status = 429 \/ (500 <= o.status /\ o.status < 600)
         THEN WikimediaRestTransientError(o.status)
    ELSE IF o.status >= 400 THEN HTTPStatusError(o.status)
    ELSE IF o.kind = "malformed" THEN JSONDecodeError
    ELSE NoException

\* one run of the body of _fetch_html
fetch_html(o) ==
    IF GetFails(o) THEN RequestError
    ELSE IF o.status >= 400 THEN HTTPStatusError(o.status)
    ELSE NoException

\* isinstance(exc, httpx.HTTPError)
IsHTTPError(exc) == exc.type \in {"RequestError", "HTTPStatusError"}

\* _is_retryable_arxiv_error(exc)
is_retryable_arxiv_error(exc) ==
    IF exc.type = "RequestError" THEN TRUE
    ELSE IF exc.type = "HTTPStatusError"
         THEN exc.status = 429 \/ (500 <= exc.status /\ exc.status < 600)
    ELSE FALSE

Fetchers == {"arxiv", "openalex", "wiki_summary", "wiki_html"}

\* the decorated function run once
RunOnce(f, o) ==
    CASE f = "arxiv" -> fetch_arxiv_feed(o)
      [] f = "openalex" -> fetch_openalex_works(o)
      [] f = "wiki_summary" -> fetch_summary(o)
      [] f = "wiki_html" -> fetch_html(o)

\* the retry= argument of the decorator of each function
RetryIf(f, exc) ==
    CASE f = "arxiv" -> is_retryable_arxiv_error(exc)
      [] f = "openalex" -> IsHTTPError(exc)
      [] f = "wiki_summary" ->
            exc.type = "WikimediaRestTransientError" \/ exc.type = "RequestError"
      [] f = "wiki_html" -> IsHTTPError(exc)

\* stop_after_attempt(HTTP_MAX_RETRIES)
stop_after_attempt(attempt_number) == attempt_number >= HTTP_MAX_RETRIES

RECURSIVE Pow2(_)
Pow2(n) == IF n <= 0 THEN 1 ELSE 2 * Pow2(n - 1)

\* the backoff with the exponent one too high: 2, 4, 8, 8
wait_exponential_from_two(attempt_number) == Max(1, Min(Pow2(attempt_number), 8))

\* wait_exponential(multiplier=1, min=1, max=8), in seconds
wait_exponential(attempt_number) == Max(1, Min(Pow2(attempt_number - 1), 8))

\* the service an ingestion route names in its 502
RouteOf(f) ==
    CASE f = "arxiv" -> "arXiv"
      [] f = "openalex" -> "OpenAlex"
      [] OTHER -> "Wikimedia"

\* fastapi.HTTPException(status_code=502, detail="Upstream <service> error: ...")
HTTPException(status, service) ==
    [type |-> "HTTPException", status |-> status, service |-> service]

\* what the route answers once the fetch has raised exc: ingest_arxiv and
\* ingest_openalex turn the two httpx errors into a 502, anything else is
\* left to the generic handler and answered 500
ingest_error(f, exc) ==
    IF IsHTTPError(exc) THEN HTTPException(502, RouteOf(f))
    ELSE [type |-> exc.type, status |-> 500, service |-> ""]

\* the route calls the decorated function
FetchStart ==
    /\ fetch.phase = "idle"
    /\ \E f \in Fetchers :
         fetch' = [NoFetch EXCEPT !.phase = "attempt", !.fetcher = f,
                                  !.attempt_number = 1]
    /\ UNCHANGED <<now, cfg_vars, cache_vars, metric_vars, chat_vars, snap_vars, lock_vars, late_vars>>

\* tenacity runs the function once and decides: return, raise, or sleep
FetchAttempt ==
    /\ fetch.phase = "attempt"
    /\ \E o \in Outcomes :
         LET exc == RunOnce(fetch.fetcher, o)
             tried == Append(fetch.attempts, [outcome |-> o, exc |-> exc])
         IN  fetch' =
               IF exc = NoException
               THEN [fetch EXCEPT !.phase = "returned", !.attempts = tried]
               ELSE IF ~RetryIf(fetch.fetcher, exc)
                       \/ stop_after_attempt(fetch.attempt_number)
               THEN [fetch EXCEPT !.phase = "raised", !.attempts = tried,
                                  !.raised = exc]
               ELSE [fetch EXCEPT !.phase = "sleep", !.attempts = tried]
    /\ UNCHANGED <<now, cfg_vars, cache_vars, metric_vars, chat_vars, snap_vars, lock_vars, late_vars>>

\* tenacity sleeps, then the next attempt begins
FetchSleep ==
    /\ fetch.phase = "sleep"
    /\ fetch' = [fetch EXCEPT !.phase = "attempt",
                              !.waits = Append(@, wait_exponential(fetch.attempt_number)),
                              !.attempt_number = @ + 1]
    /\ UNCHANGED <<now, cfg_vars, cache_vars, metric_vars, chat_vars, snap_vars, lock_vars, late_vars>>

\* ingest_arxiv / ingest_openalex: the except clause around the fetch
IngestFails ==
    /\ fetch.phase = "raised"
    /\ fetch.fetcher \in {"arxiv", "openalex"}
    /\ fetch' = [fetch EXCEPT !.phase = "answered",
                              !.answer = ingest_error(fetch.fetcher, fetch.raised)]
    /\ UNCHANGED <<now, cfg_vars, cache_vars, metric_vars, chat_vars, snap_vars, lock_vars, late_vars>>

\* "except RetryError": the clause catches tenacity.RetryError alone, and
\* with reraise=True tenacity raises the last exception of the function
except_RetryError(exc) == exc.type = "RetryError"

\* fetch_wiki_documents, one title, once _fetch_summary has returned or
\* raised (lines 161-235): what the function does next
after_fetch_summary(f) ==
    LET last == f.attempts[Len(f.attempts)].outcome
    IN  IF f.phase = "raised"
        THEN IF except_RetryError(f.raised) THEN "action_api" ELSE "propagate"
        ELSE IF last.status = 403 THEN "action_api"
        ELSE IF last.status = 404 THEN "html"
        ELSE "rest_summary"

\* fetch_wiki_documents, one title, once _fetch_html has returned or raised
\* (lines 204-215): the title is skipped by "continue" in the except clause
after_fetch_html(f) ==
    IF f.phase = "raised"
    THEN IF except_RetryError(f.raised) THEN "skip_title" ELSE "propagate"
    ELSE "rest_html"

\* fetch_wiki_documents goes on after the fetch of one title
WikiGoesOn ==
    /\ fetch.phase \in {"returned", "raised"}
    /\ fetch.fetcher \in {"wiki_summary", "wiki_html"}
    /\ fetch' = [fetch EXCEPT !.phase = "handled",
                              !.answer = [next |-> IF fetch.fetcher = "wiki_summary"
                                                   THEN after_fetch_summary(fetch)
                                                   ELSE after_fetch_html(fetch),
                                          after |-> fetch.phase]]
    /\ UNCHANGED <<now, cfg_vars, cache_vars, metric_vars, chat_vars, snap_vars, lock_vars, late_vars>>

InitRetry ==
    /\ InitShared
    /\ workload = <<>>
    /\ fetch = NoFetch
    /\ cache_op = NoOp
    /\ CACHE_ENABLED = TRUE
    /\ TAVILY_API_KEY = FALSE
    /\ tavily_importable = FALSE
    /\ settings_complete = TRUE
    /\ GROQ_API_KEY = TRUE

NextRetry == FetchStart \/ FetchAttempt \/ FetchSleep \/ IngestFails \/ WikiGoesOn

SpecRetry == InitRetry /\ [][NextRetry]_vars

(***************************************************************************)
(* SpecBackoff: the decorated fetches with HTTP_MAX_RETRIES as the         *)
(* environment sets it, so that more than two waits are seen.              *)
(***************************************************************************)
BackoffFetchers == {"arxiv", "wiki_summary"}

BackoffOutcomes == {NetworkFailure, Answered(503), Answered(200)}

\* get_settings().HTTP_MAX_RETRIES is read from the environment when the
\* module is imported; the route then calls the decorated function
BackoffStart ==
    /\ fetch.phase = "idle"
    /\ \E f \in BackoffFetchers, n \in 1..MaxConfiguredRetries :
         fetch' = [max_attempt_number |-> n]
                  @@ [NoFetch EXCEPT !.phase = "attempt", !.fetcher = f,
                                     !.attempt_number = 1]
    /\ UNCHANGED <<now, cfg_vars, cache_vars, metric_vars, chat_vars, snap_vars, lock_vars, late_vars>>

\* tenacity runs the function once and decides, stop_after_attempt holding
\* the configured number
BackoffAttempt ==
    /\ fetch.phase = "attempt"
    /\ \E o \in BackoffOutcomes :
         LET exc == RunOnce(fetch.fetcher, o)
             tried == Append(fetch.attempts, [outcome |-> o, exc |-> exc])
         IN  fetch' =
               IF exc = NoException
               THEN [fetch EXCEPT !.phase = "returned", !.attempts = tried]
               ELSE IF ~RetryIf(fetch.fetcher, exc)
                       \/ fetch.attempt_number >= fetch.max_attempt_number
               THEN [fetch EXCEPT !.phase = "raised", !.attempts = tried,
                                  !.raised = exc]
               ELSE [fetch EXCEPT !.phase = "sleep", !.attempts = tried]
    /\ UNCHANGED <<now, cfg_vars, cache_vars, metric_vars, chat_vars, snap_vars, lock_vars, late_vars>>

InitBackoff == InitRetry

NextBackoff == BackoffStart \/ BackoffAttempt \/ FetchSleep

SpecBackoff == InitBackoff /\ [][NextBackoff]_vars

(***************************************************************************)
(* SpecLocks: the two locks.  Each operation is reduced to what it does to *)
(* metrics._lock and cache._lock, in order; threads run operations one     *)
(* after another and take a lock only when it is free.                     *)
(***************************************************************************)
Acquire(l) == [do |-> "acquire", lock |-> l]

Release(l) == [do |-> "release", lock |-> l]

\* code run outside any `with _lock` block of its function
Unlocked == [do |-> "run", lock |-> "none"]

\* metrics_middleware: with _lock around the counters
LocksOfMiddleware == <<Acquire("metrics"), Release("metrics")>>

\* record_chat_timings: with _lock around buffer, sums and count
LocksOfRecordTimings == <<Acquire("metrics"), Release("metrics")>>

\* a snapshot that reads the cache counters under both locks
LocksOfNestedSnapshot ==
    <<Acquire("metrics"), Acquire("cache"), Release("cache"), Release("metrics")>>

\* get_metrics_snapshot: with _lock around the copies; get_cache_stats()
\* is called after the block and takes no lock
LocksOfSnapshot == <<Acquire("metrics"), Release("metrics"), Unlocked>>

\* get_search_cached, get_chat_cached: with _lock around test, counter, read
LocksOfGetCached == <<Acquire("cache"), Release("cache")>>

\* set_search_cached, set_chat_cached: with _lock around the store
LocksOfSetCached == <<Acquire("cache"), Release("cache")>>

\* chat() on a miss, inside the middleware: lookup, graph run, timings,
\* store, then the middleware's counters
LocksOfChat ==
    LocksOfGetCached \o <<Unlocked>> \o LocksOfRecordTimings \o LocksOfSetCached
        \o LocksOfMiddleware

Programs == {LocksOfMiddleware, LocksOfRecordTimings, LocksOfSnapshot,
             LocksOfGetCached, LocksOfSetCached, LocksOfChat}

\* thread t can do its next lock operation
CanStep(t) ==
    /\ running[t] # <<>>
    /\ Head(running[t]).do = "acquire" => lock_owner[Head(running[t]).lock] = 0

ThreadStart ==
    \E t \in Threads, p \in Programs :
        /\ running[t] = <<>>
        /\ running' = [running EXCEPT ![t] = p]
        /\ UNCHANGED <<now, cfg_vars, cache_vars, metric_vars, chat_vars, snap_vars,
                       fetch, lock_owner, late_vars>>

ThreadStep ==
    \E t \in Threads :
        /\ CanStep(t)
        /\ LET op == Head(running[t])
           IN  lock_owner' = CASE op.do = "acquire" -> [lock_owner EXCEPT ![op.lock] = t]
                               [] op.do = "release" -> [lock_owner EXCEPT ![op.lock] = 0]
                               [] OTHER -> lock_owner
        /\ running' = [running EXCEPT ![t] = Tail(@)]
        /\ UNCHANGED <<now, cfg_vars, cache_vars, metric_vars, chat_vars, snap_vars,
                       fetch, late_vars>>

InitLocks ==
    /\ InitShared
    /\ workload = <<>>
    /\ fetch = NoFetch
    /\ cache_op = NoOp
    /\ CACHE_ENABLED = TRUE
    /\ TAVILY_API_KEY = FALSE
    /\ tavily_importable = FALSE
    /\ settings_complete = TRUE
    /\ GROQ_API_KEY = TRUE

NextLocks == ThreadStart \/ ThreadStep

SpecLocks == InitLocks /\ [][NextLocks]_vars

(***************************************************************************)
(* Properties of the metrics aggregator (SpecMetrics).                     *)
(***************************************************************************)
RECURSIVE SumField(_, _)
SumField(samples, f) ==
    IF samples = <<>> THEN 0 ELSE Head(samples)[f] + SumField(Tail(samples), f)

LastN(seq, n) == SubSeq(seq, Len(seq) - n + 1, Len(seq))

\* C10: after any sequence of record_chat_timings calls, with n the number
\* of samples ever recorded, the ring buffer holds exactly the last
\* min(n, 20) of them in arrival order, the running count is n, and each
\* running sum is the sum of its field over all n samples.
C10_RingBufferAndTotals ==
    LET n == Len(recorded)
    IN  /\ timing_count = n
        /\ timing_samples = LastN(recorded, Min(n, 20))
        /\ \A f \in FieldSet : timing_sums[f] = SumField(recorded, f)

\* 21 samples recorded, the first of them the slow one: it has left the
\* buffer and still counts in the sums
C10_Witness ==
    /\ Len(recorded) = 21
    /\ recorded[1] = MakeSample(SlowSample)
    /\ Len(timing_samples) = 20
    /\ \A i \in 1..Len(timing_samples) : timing_samples[i] = MakeSample(FastSample)
    /\ timing_sums["total_ms"] = 150 + 20 * 40
    /\ timing_count = 21

(***************************************************************************)
(* Properties of the metrics snapshot (SpecSnapshot).                      *)
(***************************************************************************)
\* v is the element at 0-based index k of values sorted ascending
AtSortedIndex(values, k, v) ==
    /\ \E i \in DOMAIN values : values[i] = v
    /\ Cardinality({i \in DOMAIN values : values[i] < v}) <= k
    /\ k < Cardinality({i \in DOMAIN values : values[i] <= v})

\* the integers nearest to p/100 * (len - 1), within 0 .. len - 1
NearestRanks(p, len) ==
    {k \in 0..(len - 1) : 100 * k - p * (len - 1) \in (0 - 50)..50}

\* the first n samples ever recorded
FirstRecorded(n) == SubSeq(recorded, 1, n)

\* C11: a finished snapshot holds the last min(n, 20) samples of the n
\* recorded when it was taken, and for every timing field its p50 and p95
\* are the element of that field's buffered values, sorted ascending, at
\* an index nearest to p/100 * (len - 1); samples dropped from the buffer
\* play no part.
C11_PercentilesOfBuffer ==
    snap_pc = "done" =>
        LET n == snapshot.sample_count
            buffered == snapshot.samples
        IN  /\ n <= Len(recorded)
            /\ buffered = LastN(FirstRecorded(n), Min(n, 20))
            /\ \A f \in FieldSet :
                buffered # <<>> =>
                    /\ \E k \in NearestRanks(50, Len(buffered)) :
                          AtSortedIndex(FieldValues(buffered, f), k,
                                        snapshot.timings.p50_ms[f])
                    /\ \E k \in NearestRanks(95, Len(buffered)) :
                          AtSortedIndex(FieldValues(buffered, f), k,
                                        snapshot.timings.p95_ms[f])

\* the samples 10, 20, 30, 40, 50 give p50 = 30 and p95 = 50
C11_Witness ==
    /\ snap_pc = "done"
    /\ FieldValues(snapshot.samples, "retrieve_ms") = <<10, 20, 30, 40, 50>>
    /\ snapshot.timings.p50_ms["retrieve_ms"] = 30
    /\ snapshot.timings.p95_ms["retrieve_ms"] = 50

\* C12: a finished snapshot reports, for every timing field, the sum of
\* the field over all the samples recorded when it was taken divided by
\* their number (to the hundredth of a millisecond), whatever the buffer
\* still holds; with no sample recorded every average and every percentile
\* is 0.
C12_AllTimeAverages ==
    snap_pc = "done" =>
        LET n == snapshot.sample_count
        IN  \A f \in FieldSet :
                LET average == snapshot.timings.average_ms[f]
                    total == SumField(FirstRecorded(n), f)
                IN  IF n = 0
                    THEN /\ average = 0
                         /\ snapshot.timings.p50_ms[f] = 0
                         /\ snapshot.timings.p95_ms[f] = 0
                    ELSE /\ average * n <= 100 * total
                         /\ 100 * total < (average + 1) * n

\* 21 samples, the slow first one gone from the buffer: the average of
\* total_ms is (450 + 20 * 120) / 21 = 135.71
C12_Witness ==
    /\ snap_pc = "done"
    /\ snapshot.sample_count = 21
    /\ Len(snapshot.samples) = 20
    /\ \A i \in 1..Len(snapshot.samples) : snapshot.samples[i]["total_ms"] = 120
    /\ snapshot.timings.average_ms["total_ms"] = 13571

\* the aggregator as it stands
Aggregator ==
    [requests_by_path |-> request_counts, errors_by_path |-> error_counts,
     samples |-> timing_samples, sums |-> timing_sums, count |-> timing_count]

\* what a finished snapshot returns of the aggregator, the sums being
\* returned as the averages
Returned(snap, sums) ==
    [requests_by_path |-> snap.requests_by_path,
     errors_by_path |-> snap.errors_by_path,
     samples |-> snap.samples, sums |-> sums, count |-> snap.sample_count]

\* C13: whatever the middleware and record_chat_timings do meanwhile, the
\* counters, buffer, sums and count of one snapshot are those of the
\* aggregator at one moment, the step that copies them: the copies equal the
\* aggregator then, nothing changes them until the snapshot returns, the
\* sums are over exactly sample_count samples and the buffer holds
\* min(sample_count, 20) of them.
C13_SnapshotOfOneState ==
    [][/\ (snap_pc = "idle" /\ snap_pc' = "copied") =>
            /\ snapshot' = Aggregator
            /\ Aggregator' = Aggregator
       /\ (snap_pc = "copied" /\ snap_pc' = "copied") => snapshot' = snapshot
       /\ (snap_pc = "copied" /\ snap_pc' = "done") =>
            LET n == snapshot'.sample_count
            IN  /\ Returned(snapshot', snapshot.sums) = snapshot
                /\ n <= Len(recorded)
                /\ \A f \in FieldSet :
                      /\ snapshot.sums[f] = SumField(FirstRecorded(n), f)
                      /\ n > 0 => snapshot'.timings.average_ms[f]
                                     = (100 * snapshot.sums[f]) \div n
                /\ Len(snapshot'.samples) = Min(n, 20)
                /\ snapshot'.errors_by_path["/chat"]
                      <= snapshot'.requests_by_path["/chat"]
       /\ (snap_pc = "done" /\ snap_pc' = "done") => snapshot' = snapshot
      ]_vars

\* a snapshot of 21 samples and one request returns after a 22nd sample
\* and a second request have been recorded
C13_Witness ==
    /\ snap_pc = "done"
    /\ snapshot.sample_count = 21
    /\ Len(snapshot.samples) = 20
    /\ snapshot.requests_by_path["/chat"] = 1
    /\ timing_count = 22
    /\ request_counts["/chat"] = 2

(***************************************************************************)
(* Properties of one pipeline run (SpecRun).                               *)
(***************************************************************************)
StageOrder == <<"normalize_input", "retrieve_context", "decide_next", "web_search",
                "generate_answer", "format_response">>

IsPrefix(a, b) == Len(a) <= Len(b) /\ a = SubSeq(b, 1, Len(a))

\* a sequence of stages in pipeline order, web_search run or skipped
InOrder(seq) ==
    \/ IsPrefix(seq, StageOrder)
    \/ IsPrefix(seq, SelectSeq(StageOrder, LAMBDA n : n # "web_search"))

Ran(r, node) == \E i \in 1..Len(stages[r]) : stages[r][i] = node

\* C1: within one run the stages execute in the order normalize_input,
\* retrieve_context, decide_next, web_search (only when selected),
\* generate_answer, format_response: the stages run so far, followed by the
\* stage about to run, are a prefix of that order, so none runs twice and
\* none before its predecessor has returned; web_search runs only in a run
\* whose decision selected it, and a run that selected it does not skip it.
C1_StagesInOrder ==
    \A r \in Slots :
        /\ InOrder(stages[r])
        /\ pc[r] \in Nodes => InOrder(Append(stages[r], pc[r]))
        /\ Ran(r, "web_search") => Flag(state[r], "web_fallback_used")
        /\ (Ran(r, "generate_answer") /\ Flag(state[r], "web_fallback_used"))
              => Ran(r, "web_search")

\* a run through all six stages
C1_Witness ==
    /\ pc[1] = "finish"
    /\ stages[1] = StageOrder
    /\ Flag(state[1], "web_fallback_used")

\* C2: decide_next sets web_fallback_used, and routes the run to web_search
\* instead of generate_answer, iff use_web_fallback and tavily_available and
\* (retrieved is empty or top_score < min_score); it changes no other field.
C2_DecideNext ==
    [][\A r \in Slots :
          (pc[r] = "decide_next" /\ pc'[r] # "decide_next") =>
             LET s == state[r]
                 want == /\ s["use_web_fallback"]
                         /\ s["tavily_available"]
                         /\ (s["retrieved"] = <<>> \/ s["top_score"] < s["min_score"])
             IN  /\ state'[r]["web_fallback_used"] = want
                 /\ pc'[r] = IF want THEN "web_search" ELSE "generate_answer"
                 /\ DOMAIN state'[r] = DOMAIN s
                 /\ \A k \in DOMAIN s \ {"web_fallback_used"} : state'[r][k] = s[k]]_vars

\* the decision taken with the top score exactly at the threshold: no web
\* search, although it was asked for and the tool is configured
C2_Witness ==
    /\ pc[1] = "generate_answer"
    /\ stages[1] = <<"normalize_input", "retrieve_context", "decide_next">>
    /\ state[1]["use_web_fallback"]
    /\ state[1]["tavily_available"]
    /\ state[1]["retrieved"] # <<>>
    /\ state[1]["top_score"] = state[1]["min_score"]
    /\ ~state[1]["web_fallback_used"]

\* C7: a /chat run that aborts with an error at any stage stores nothing in
\* the chat cache and records no timing sample (buffer, sums and count stay
\* as they were), and the request and error counters of its path are each
\* incremented exactly once, when the request leaves the middleware.
C7_AbortedRun ==
    [][\A r \in Slots :
          /\ (pc[r] \in Nodes \cup {"invoke", "running"} /\ pc'[r] = "respond") =>
                /\ result'[r].kind = "error"
                /\ UNCHANGED <<chat_cache, timing_samples, timing_sums, timing_count,
                               request_counts, error_counts>>
          /\ (pc[r] = "respond" /\ result[r].kind = "error" /\ pc'[r] = "idle") =>
                /\ UNCHANGED <<chat_cache, timing_samples, timing_sums, timing_count>>
                /\ ~HasKey(chat_cache', ChatKeyOf(payload[r]))
                /\ request_counts' = [request_counts EXCEPT !["/chat"] = @ + 1]
                /\ error_counts' = [error_counts EXCEPT !["/chat"] = @ + 1]]_vars

\* the one request of the behaviour has been answered with an error: counted
\* once as a request and once as an error, nothing cached, no sample
C7_Witness ==
    /\ received = 1
    /\ pc[1] = "idle"
    /\ request_counts["/chat"] = 1
    /\ error_counts["/chat"] = 1
    /\ chat_cache = EmptyCache
    /\ timing_samples = <<>>
    /\ timing_count = 0
    /\ \A f \in FieldSet : timing_sums[f] = 0

\* the name UpstreamServiceError carries for the capability a stage calls
Capability(node) ==
    CASE node = "retrieve_context" -> "Pinecone"
      [] node = "web_search" -> "Tavily"
      [] node = "generate_answer" -> "Groq"
      [] OTHER -> ""

\* C8: when the external call of a stage fails (vector search in
\* retrieve_context, web search in web_search, the LLM in generate_answer),
\* the run ends at that stage with an UpstreamServiceError whose service
\* names the failing capability.  A stage that raised before making its
\* call (a Settings field it reads is not declared, a key of the state is
\* missing, no Groq key is set) is not a case of this.
C8_TypedUpstreamError ==
    \A r \in Slots :
        (/\ pc[r] = "respond" /\ result[r].kind = "error" /\ stages[r] # <<>>
         /\ result[r].error \notin {AttributeError, KeyError, RuntimeError}) =>
            result[r].error = UpstreamServiceError(Capability(stages[r][Len(stages[r])]))

\* C9: when the web-search tool is unavailable as the web_search stage runs,
\* the stage yields zero web results, raises nothing and hands the run on to
\* generate_answer.
C9_ToolUnavailable ==
    [][\A r \in Slots :
          (/\ pc[r] = "web_search"
           /\ pc'[r] # "web_search"
           /\ ~(TAVILY_API_KEY /\ tavily_importable)) =>
             /\ pc'[r] = "generate_answer"
             /\ state'[r]["web_results"] = <<>>
             /\ result'[r] = Pending
             /\ now' = now]_vars

\* a run that went through web_search without the tool and completed with
\* a response that has no web source
C9_Witness ==
    /\ pc[1] = "respond"
    /\ result[1].kind = "response"
    /\ Ran(1, "web_search")
    /\ Ran(1, "format_response")
    /\ ~(TAVILY_API_KEY /\ tavily_importable)
    /\ state[1]["web_results"] = <<>>
    /\ \A i \in 1..Len(result[1].body.sources) : result[1].body.sources[i].source # "web"

\* the values a request may set: top_k 1..100, min_score 0.0..1.0,
\* max_web_results 1..20
InRange(p) ==
    /\ p.top_k \in 1..100
    /\ p.min_score \in 0..100
    /\ p.max_web_results \in 1..20

\* C20: once normalize_input has run, the state carries every value the
\* request set within its range (top_k, min_score, max_web_results, and
\* the namespace when one was given), the default standing in only for a
\* field that was not set, and normalize_input has not failed.
C20_ExplicitValuesKept ==
    \A r \in Slots :
        (Ran(r, "normalize_input") /\ InRange(payload[r])) =>
            /\ state[r]["top_k"] = payload[r].top_k
            /\ state[r]["min_score"] = payload[r].min_score
            /\ state[r]["max_web_results"] = payload[r].max_web_results
            /\ state[r]["namespace"] = IF payload[r].namespace = ""
                                       THEN PINECONE_NAMESPACE
                                       ELSE payload[r].namespace
            /\ ~(pc[r] = "respond" /\ stages[r] = <<"normalize_input">>)

(***************************************************************************)
(* Properties of the caches (SpecCache).                                   *)
(***************************************************************************)
TTLOf(c) == IF c = "chat" THEN CHAT_TTL_SECONDS ELSE SEARCH_TTL_SECONDS

MaxSizeOf(c) == IF c = "chat" THEN ChatCacheMaxSize ELSE SearchCacheMaxSize

CacheNamed(c) == IF c = "chat" THEN chat_cache ELSE search_cache

\* the last operation was a lookup, with the cache enabled, of a key put before
LookupOfStored ==
    /\ cache_op.op = "get"
    /\ cache_op.outcome # "disabled"
    /\ Has(stored[cache_op.cache], cache_op.key)

\* C5: an entry stored at time t is absent for every lookup made when more
\* than the TTL has elapsed since t and, unless evicted for capacity or
\* overwritten, is returned by every lookup made while its age has not
\* exceeded the TTL.
C5_TtlWindow ==
    LookupOfStored =>
        LET put == stored[cache_op.cache][cache_op.key]
            age == cache_op.t1 - put.at
        IN  /\ age > TTLOf(cache_op.cache) => cache_op.outcome = "miss"
            /\ (age <= TTLOf(cache_op.cache) /\ ~put.evicted) =>
                   /\ cache_op.outcome = "hit"
                   /\ cache_op.value = put.value

\* the last operation was a put, with the cache enabled
PutDone == cache_op.op = "set" /\ cache_op.outcome = "stored"

\* the keys of the unexpired entries the cache held as the put began
LiveBefore ==
    {k \in CacheKeys(cache_op.before) :
        cache_op.t1 < EntryOf(cache_op.before, k).expires}

\* the put found the cache full of unexpired entries and its key not among them
PutBeyondCapacity ==
    /\ PutDone
    /\ Cardinality(LiveBefore) = MaxSizeOf(cache_op.cache)
    /\ cache_op.key \notin LiveBefore

\* of the keys in keys, the one least recently put or returned by a lookup
LeastRecent(c, keys) ==
    recent[c][CHOOSE i \in 1..Len(recent[c]) :
                 /\ recent[c][i] \in keys
                 /\ \A j \in 1..(i - 1) : recent[c][j] \notin keys]

\* of the keys in keys, the one whose last put is the oldest
OldestPut(c, keys) ==
    LET es == TTLExpire(cache_op.before, cache_op.t1).entries
    IN  es[CHOOSE i \in 1..Len(es) : /\ es[i].key \in keys
                                     /\ \A j \in 1..(i - 1) : es[j].key \notin keys].key

\* C6 (amended): a cache never holds more than its capacity; a put of a new
\* key into a cache full of unexpired entries evicts exactly one entry, the
\* least recently used one (last put or last returned by a lookup); every
\* other entry is still present with its value, and a later lookup of the
\* evicted key misses.
C6_EvictsLeastRecentlyUsed ==
    /\ Len(chat_cache.entries) <= ChatCacheMaxSize
    /\ Len(search_cache.entries) <= SearchCacheMaxSize
    /\ PutBeyondCapacity =>
          LET c == cache_op.cache
              gone == LeastRecent(c, LiveBefore)
          IN  /\ CacheKeys(CacheNamed(c)) = (LiveBefore \ {gone}) \cup {cache_op.key}
              /\ ~TTLContains(CacheNamed(c), gone, cache_op.t1)
              /\ \A k \in LiveBefore \ {gone} :
                    /\ TTLContains(CacheNamed(c), k, cache_op.t1)
                    /\ EntryOf(CacheNamed(c), k) = EntryOf(cache_op.before, k)
    /\ (LookupOfStored /\ stored[cache_op.cache][cache_op.key].evicted) =>
          cache_op.outcome = "miss"

\* a put beyond capacity that evicted a key put after another one, which a
\* lookup had returned since
C6_Witness ==
    /\ PutBeyondCapacity
    /\ Cardinality(cache_op.evicted) = 1
    /\ cache_op.evicted = {LeastRecent(cache_op.cache, LiveBefore)}
    /\ cache_op.evicted # {OldestPut(cache_op.cache, LiveBefore)}

\* C6 as stated: the entry evicted by a put beyond capacity is the
\* oldest-inserted one, and every other entry is still present.
C6_EvictsOldestInserted ==
    PutBeyondCapacity =>
        CacheKeys(CacheNamed(cache_op.cache)) =
            (LiveBefore \ {OldestPut(cache_op.cache, LiveBefore)}) \cup {cache_op.key}

HitsOf(c) == IF c = "chat" THEN chat_hits ELSE search_hits

MissesOf(c) == IF c = "chat" THEN chat_misses ELSE search_misses

\* C14: every lookup on an enabled cache adds one to exactly one of the
\* cache's two counters, to the hit counter if and only if the lookup
\* returned a stored value, so that hits + misses grows by one a lookup.
C14_OneCounterPerLookup ==
    [][\A c \in {"chat", "search"} :
          (CACHE_ENABLED /\ ops' = ops + 1
              /\ cache_op'.op = "get" /\ cache_op'.cache = c) =>
             LET returned == cache_op'.outcome = "hit"
             IN  /\ HitsOf(c)' = HitsOf(c) + (IF returned THEN 1 ELSE 0)
                 /\ MissesOf(c)' = MissesOf(c) + (IF returned THEN 0 ELSE 1)
      ]_vars

(***************************************************************************)
(* Properties of the cache bypass (SpecBypass).                            *)
(***************************************************************************)
ChatCacheState == <<chat_cache, chat_hits, chat_misses>>

SearchCacheState == <<search_cache, search_hits, search_misses>>

\* the request slot r handles before or after the step
RequestOf(r) == IF pc[r] = "idle" THEN payload[r]' ELSE payload[r]

\* C15: with the caches disabled every get returns nothing, no put stores
\* anything, and contents and counters never change; with the caches
\* enabled no step of a /chat request that carries a conversation history
\* changes the chat cache or its counters, and its response is a fresh one.
C15_CacheBypass ==
    [][/\ ~CACHE_ENABLED =>
            /\ UNCHANGED <<ChatCacheState, SearchCacheState>>
            /\ cache_op' # cache_op =>
                  /\ cache_op'.outcome \in {"disabled", "none"}
                  /\ cache_op'.op = "get" => cache_op'.value = EmptyDict
       /\ \A r \in Slots :
            (CACHE_ENABLED /\ pc[r]' # pc[r] /\ RequestOf(r).chat_history # <<>>) =>
                /\ UNCHANGED ChatCacheState
                /\ pc[r]' # "cached"
      ]_vars

\* the caches enabled, the response to a request with a history is ready:
\* it is a fresh one although the chat cache holds an entry under the
\* request's key, the entry is the one put directly, and no lookup was
\* counted
C15_Witness ==
    /\ CACHE_ENABLED
    /\ pc[1] = "respond"
    /\ payload[1].chat_history # <<>>
    /\ result[1].status = 200
    /\ ~result[1].cached
    /\ TTLContains(chat_cache, ChatKeyOf(payload[1]), now)
    /\ EntryOf(chat_cache, ChatKeyOf(payload[1])).value \in
          {CannedResponse(a) : a \in Answers}
    /\ chat_hits = 0
    /\ chat_misses = 0

(***************************************************************************)
(* Properties of the retries of the ingestion fetches (SpecRetry).         *)
(***************************************************************************)
\* the failures the policy is to retry: the network, a timeout, 429, 5xx
Transient(o) ==
    \/ o.kind \in {"network", "timeout"}
    \/ o.kind = "http" /\ (o.status = 429 \/ (500 <= o.status /\ o.status < 600))

\* attempt i failed and another attempt follows it or is about to
RetriedAfter(i) == i < Len(fetch.attempts) \/ fetch.phase \in {"sleep", "attempt"}

\* C16: a failed attempt is retried if and only if its failure is a network
\* or connection error, a timeout, or a response with status 429 or 5xx
\* (and attempts remain); any other failure ends the call at once, so a
\* call whose first failure is of that kind is attempted exactly once.
C16_RetryIffTransient ==
    \A i \in 1..Len(fetch.attempts) :
        fetch.attempts[i].exc # NoException =>
            (RetriedAfter(i) <=>
                (Transient(fetch.attempts[i].outcome) /\ i < HTTP_MAX_RETRIES))

AllAnswered500 ==
    /\ fetch.attempts # <<>>
    /\ \A i \in 1..Len(fetch.attempts) : fetch.attempts[i].outcome = Answered(500)

\* the error the caller of the fetch is left with
ErrorToCaller == IF fetch.phase = "answered" THEN fetch.answer ELSE fetch.raised

\* C17: a call all of whose attempts are answered 500 makes exactly
\* HTTP_MAX_RETRIES attempts, never more, waits between consecutive
\* attempts, and then fails with an UpstreamServiceError.
C17_ExhaustedRaisesUpstreamError ==
    /\ Len(fetch.attempts) <= HTTP_MAX_RETRIES
    /\ (fetch.phase \in {"raised", "answered"} /\ AllAnswered500) =>
          /\ Len(fetch.attempts) = HTTP_MAX_RETRIES
          /\ Len(fetch.waits) = HTTP_MAX_RETRIES - 1
          /\ \A i \in 1..Len(fetch.waits) : fetch.waits[i] > 0
          /\ ErrorToCaller.type = "UpstreamServiceError"

(***************************************************************************)
(* Properties of the locks (SpecLocks).                                    *)
(***************************************************************************)
Holds(t, l) == lock_owner[l] = t

WaitsFor(t, l) ==
    /\ running[t] # <<>>
    /\ Head(running[t]) = Acquire(l)
    /\ lock_owner[l] # 0

\* C18: no thread ever holds the cache lock and the metrics lock together,
\* no thread waits for one of them while it holds the other, and the
\* threads never deadlock: while some thread has lock operations left, some
\* thread can do its next one.
C18_LocksNeverNested ==
    /\ \A t \in Threads : ~(Holds(t, "metrics") /\ Holds(t, "cache"))
    /\ \A t \in Threads, l \in Locks :
          WaitsFor(t, l) => \A k \in Locks : ~Holds(t, k)
    /\ (\E t \in Threads : running[t] # <<>>) => \E t \in Threads : CanStep(t)

\* thread 1 holds the metrics lock inside a snapshot; thread 2, in chat(),
\* has released the cache lock after its lookup and waits for the metrics
\* lock to record its timings
C18_Witness ==
    /\ Holds(1, "metrics")
    /\ running[1] = Tail(LocksOfSnapshot)
    /\ WaitsFor(2, "metrics")
    /\ running[2] = LocksOfRecordTimings \o LocksOfSetCached \o LocksOfMiddleware
    /\ lock_owner["cache"] = 0

(***************************************************************************)
(* Properties of concurrent /chat requests (Spec).                         *)
(***************************************************************************)
\* request r is received in this step, eligible for the cache
ReceivedCacheable(r) ==
    /\ pc[r] = "idle"
    /\ pc'[r] # "idle"
    /\ CACHE_ENABLED
    /\ payload'[r].chat_history = <<>>

\* C3: with caching enabled, once a /chat call with empty history has
\* completed successfully, an identical call that starts after that
\* completion and less than the TTL after it is served that call's response
\* from the cache, no stage of the pipeline running for it.  A call whose
\* entry a store under another key has evicted for capacity is left out:
\* the bounded cache is allowed to drop it.
C3_IdenticalCallWithinTtl ==
    [][\A r \in Slots :
          /\ ReceivedCacheable(r) =>
                LET k == ChatKeyOf(payload'[r])
                IN  (/\ Has(completed, k)
                     /\ now - completed[k].at < CHAT_TTL_SECONDS
                     /\ ~stored.chat[k].evicted) =>
                        /\ pc'[r] = "cached"
                        /\ result'[r].kind = "response"
                        /\ result'[r].body = completed[k].body
          /\ (pc[r] = "cached" /\ pc'[r] # "cached") =>
                /\ pc'[r] = "respond"
                /\ stages'[r] = <<>>]_vars

\* C4: of two identical /chat calls with empty history in flight together,
\* caching enabled, at most one has executed the pipeline and both yield the
\* same output.
C4_SingleFlight ==
    \A r1, r2 \in Slots :
        (/\ r1 # r2
         /\ pc[r1] # "idle"
         /\ pc[r2] # "idle"
         /\ ChatKeyOf(payload[r1]) = ChatKeyOf(payload[r2])
         /\ result[r1].kind = "response"
         /\ result[r2].kind = "response") =>
            /\ result[r1].cached \/ result[r2].cached
            /\ result[r1].body = result[r2].body

\* the slots whose handler takes the step
Stepping == {r \in Slots : pc[r]' # pc[r]}

\* C19: the working state of a /chat run is written only by steps of that
\* run and always carries the query and namespace of the run's own request;
\* a fresh response is built from the state of its own run: its answer is
\* the one the language model gave that run, its sources are what that run
\* retrieved and found on the web.
C19_RunsIsolated ==
    [][\A r \in Slots :
          /\ state[r]' # state[r] => Stepping = {r}
          /\ state[r]' # EmptyDict =>
                /\ state[r]'["query"] = payload[r]'.query
                /\ state[r]'["namespace"] = NamespaceOf(payload[r]')
          /\ (r \in Stepping /\ pc[r]' = "respond"
                /\ result[r]'.kind = "response" /\ ~result[r]'.cached) =>
                /\ Has(state[r], "answer")
                /\ result[r]'.body.answer = state[r]["answer"]
                /\ Len(result[r]'.body.sources)
                      = Len(state[r]["retrieved"]) + Len(state[r]["web_results"])
                /\ \A f \in FieldSet \ {"total_ms"} :
                      result[r]'.body.timings[f] = NumOr(state[r]["timings"], f, 0)
      ]_vars

\* two runs under way for different queries: the first has its fresh
\* response with the answer a1, the second has finished its graph run with
\* the answer a2
C19_Witness ==
    /\ pc[1] = "respond"
    /\ result[1].kind = "response"
    /\ ~result[1].cached
    /\ result[1].body.answer = "a1"
    /\ payload[1].query = "q1"
    /\ pc[2] = "finish"
    /\ state[2]["query"] = "q2"
    /\ state[2]["answer"] = "a2"

(***************************************************************************)
(* Properties of the graph invoked directly (SpecGraph).                   *)
(***************************************************************************)
\* pinecone_search(..., top_k=state["top_k"], ...): the count asked of the
\* vector search by the run of slot r
SearchTopK(r) == state[r]["top_k"]

\* C21: a run whose normalized top_k is not positive is rejected with an
\* error before any external capability is invoked: no run has executed
\* retrieve_context, and so issued a vector search, with top_k <= 0, and a
\* run that has left normalize_input with such a top_k has failed.
C21_NonPositiveRejected ==
    \A r \in Slots :
        Ran(r, "normalize_input") =>
            /\ Ran(r, "retrieve_context") => SearchTopK(r) > 0
            /\ SearchTopK(r) <= 0 => (pc[r] = "respond" /\ result[r].kind = "error")

(***************************************************************************)
(* Properties of the stages of one run (SpecRun), continued.               *)
(***************************************************************************)
Highest(S) == CHOOSE x \in S : \A y \in S : y <= x

ScoresOf(hits) == {HitScore(hits[i]) : i \in 1..Len(hits)}

\* retrieve_context returns normally on the hits of e
Retrieved(e) ==
    /\ ~e.raises
    /\ GraphStep(1, "retrieve_context", [QuietEnv EXCEPT !.retrieve = e])
    /\ Ran(1, "retrieve_context")'

\* one snippet per hit, in the order of the hits
OneSnippetPerHit(retrieved, hits) ==
    /\ Len(retrieved) = Len(hits)
    /\ \A i \in 1..Len(hits) :
          /\ retrieved[i].score = HitScore(hits[i])
          /\ retrieved[i].title = hits[i].fields.title

\* C22: after Retrieve, top_score is the maximum score over the returned
\* hits when there is a hit and 0 when there is none, and retrieved holds
\* one snippet per hit in the order returned.
C22_TopScoreIsMaximum ==
    [][\A e \in RetrieveEnvs : Retrieved(e) =>
          /\ OneSnippetPerHit(state'[1].retrieved, e.hits)
          /\ state'[1].top_score = IF e.hits = <<>> THEN 0
                                   ELSE Highest(ScoresOf(e.hits))]_vars

(***************************************************************************)
(* Properties of the stream (SpecStream).                                  *)
(***************************************************************************)
\* C23: for /chat/stream the whole run, through format_response, has
\* completed before the first event: the tokens are sent in the order of the
\* answer, the one "end" event with the full payload comes after all of
\* them, and a run that has failed sends no event.
C23_StreamAfterRun ==
    /\ events # <<>> =>
          /\ pc[1] \in {"stream", "streamed"}
          /\ stages[1] # <<>> /\ stages[1][Len(stages[1])] = "format_response"
          /\ LET tokens == split(state[1]["answer"])
             IN  /\ Len(events) <= Len(tokens) + 1
                 /\ \A i \in 1..Len(events) :
                       IF i <= Len(tokens)
                       THEN events[i] = [event |-> "message", data |-> tokens[i]]
                       ELSE /\ events[i].event = "end"
                            /\ events[i].data = result[1].body
                            /\ events[i].data.answer = state[1]["answer"]
    /\ pc[1] = "streamed" => events # <<>> /\ events[Len(events)].event = "end"
    /\ pc[1] = "respond" => (result[1].kind = "error" /\ events = <<>>)

\* the answer " a  b a " streamed whole: three tokens, then the end
C23_Witness ==
    /\ pc[1] = "streamed"
    /\ Len(events) = 4
    /\ events[1].data = "a" /\ events[2].data = "b" /\ events[3].data = "a"
    /\ events[4].event = "end"
    /\ events[4].data.timings.total_ms >= 0

(***************************************************************************)
(* Properties of the API key checks (SpecAuth).                            *)
(***************************************************************************)
UnderProtected(path) == \E prefix \in protected_prefixes : startswith(path, prefix)

\* C24: when API_KEY is configured, a request to a path under /ingest,
\* /documents, /chat or /search whose X-API-Key header is missing or differs
\* from the configured key is rejected with an authentication error, 401,
\* by the middleware: it reaches neither the router nor a handler.
C24_ProtectedNeedKey ==
    (/\ auth.phase \notin {"startup", "idle", "middleware"}
     /\ auth.API_KEY # ""
     /\ UnderProtected(auth.path)
     /\ (auth.header = "" \/ auth.header # auth.API_KEY))
    => (/\ auth.phase = "done"
        /\ auth.status = 401
        /\ auth.handler = ""
        /\ auth.checks = <<"middleware">>)

\* /chat/stream asked with a wrong key, rejected
C24_Witness ==
    /\ auth.phase = "done"
    /\ auth.API_KEY = "k"
    /\ auth.path = ChatStreamPath
    /\ auth.header = "x"
    /\ auth.status = 401

PublicPaths == {HealthPath, DocsPath, OpenapiPath, RedocPath, MetricsPath}

\* C25: /health, /docs, /openapi.json, /redoc and /metrics remain public
\* whatever API_KEY is: a request to any of them is served, its handler
\* invoked, with or without an X-API-Key header.
C25_PublicPathsOpen ==
    (auth.phase = "done" /\ auth.path \in PublicPaths)
    => (auth.status = 200 /\ auth.handler # "")

(***************************************************************************)
(* Properties of fetch_wiki_documents (SpecRetry).                         *)
(***************************************************************************)
\* every attempt of the fetch failed with 429, 5xx or a network error, and
\* there were as many as tenacity allows
KeptFailing ==
    /\ Len(fetch.attempts) = HTTP_MAX_RETRIES
    /\ \A i \in 1..Len(fetch.attempts) :
          LET o == fetch.attempts[i].outcome
          IN  GetFails(o) \/ o.status = 429 \/ (500 <= o.status /\ o.status < 600)

\* C26: in fetch_wiki_documents a title whose REST summary keeps failing
\* with 429, 5xx or network errors through all retries falls back to the
\* Action API extract, and a title whose HTML fetch has failed after the
\* retries is skipped, the remaining titles still being processed: in
\* neither case does the exception leave fetch_wiki_documents.
C26_WikiFallsBack ==
    (fetch.phase = "handled" /\ fetch.answer.after = "raised" /\ KeptFailing)
    => /\ fetch.fetcher = "wiki_summary" => fetch.answer.next = "action_api"
       /\ fetch.fetcher = "wiki_html" => fetch.answer.next = "skip_title"

(***************************************************************************)
(* Properties of the cache counters of a snapshot (SpecStats).             *)
(***************************************************************************)
\* C27: the four cache counters returned together by one get_cache_stats
\* call, under any interleaving with lookups, all held at once in a single
\* state of the cache passed during the call.
C27_CountersOfOneState ==
    stats.pos = Len(CacheStatFields) + 1 => stats.values \in stats.seen

\* a snapshot taken after a miss, its store and a hit, and before the next
\* miss: it reports the hit and the first miss, not the miss counted since
C27_Witness ==
    /\ stats.pos = Len(CacheStatFields) + 1
    /\ stats.values["chat_hits"] = 1
    /\ stats.values["chat_misses"] = 1
    /\ chat_misses = 2

(***************************************************************************)
(* Properties of the backoff (SpecBackoff).                                *)
(***************************************************************************)
\* C28: between consecutive attempts of a retried call the wait is 1, 2, 4,
\* 8, 8, ... seconds: the first wait is 1, each later one the double of the
\* one before up to the cap of 8, so the waits never decrease and never
\* exceed 8, and there is one wait per failed attempt that was retried.
C28_BackoffDoublesToEight ==
    LET waits == fetch.waits
    IN  /\ Len(waits) >= 1 => waits[1] = 1
        /\ \A k \in 1..Len(waits) :
              /\ waits[k] <= 8
              /\ k > 1 => /\ waits[k] = Min(2 * waits[k - 1], 8)
                          /\ waits[k] >= waits[k - 1]
        /\ \A k \in 1..Len(waits) : k <= 5 => waits[k] = <<1, 2, 4, 8, 8>>[k]
        /\ fetch.phase \in {"attempt", "returned", "raised"}
              => Len(waits) = Len(SelectSeq(fetch.attempts,
                                            LAMBDA a : a.exc # NoException))
                              - (IF fetch.phase = "raised" THEN 1 ELSE 0)

\* six attempts configured, five failed and waited for
C28_Witness ==
    /\ fetch.phase = "attempt"
    /\ fetch.attempt_number = 6
    /\ fetch.waits = <<1, 2, 4, 8, 8>>

(***************************************************************************)
(* Properties of the capability calls of one run (SpecRun).                *)
(***************************************************************************)
\* the number of times the stage named node has run in the run of slot r
TimesRun(r, node) == Len(SelectSeq(stages[r], LAMBDA n : n = node))

\* the calls of the run of slot r: pinecone_search by retrieve_context,
\* tool.invoke by web_search where the tool exists, llm.invoke by
\* generate_answer
VectorSearches(r) == TimesRun(r, "retrieve_context")

WebSearches(r) == IF tavily_tool_available.value THEN TimesRun(r, "web_search") ELSE 0

Completions(r) == TimesRun(r, "generate_answer")

\* C29: within one run each external capability is invoked at most once:
\* the vector search exactly once in a run that got past retrieval, the web
\* search and the LLM at most once; once a capability call has raised, the
\* run invokes nothing more: its stages stay as they were at the failure
\* until the error is answered.
C29_EachCapabilityOnce ==
    /\ [](\A r \in Slots :
            /\ VectorSearches(r) <= 1
            /\ WebSearches(r) <= 1
            /\ Completions(r) <= 1
            /\ (Ran(r, "decide_next") \/ pc[r] = "finish") => VectorSearches(r) = 1)
    /\ [][\A r \in Slots :
            (Len(stages[r]) > 0 /\ result[r].kind = "error")
               => /\ pc[r] = "respond"
                  /\ stages'[r] \in {stages[r], <<>>}]_vars

\* the web search has raised after the vector search: two calls made, the
\* LLM never reached
C29_Witness ==
    /\ pc[1] = "respond"
    /\ result[1].kind = "error"
    /\ result[1].error.service = "Tavily"
    /\ VectorSearches(1) = 1
    /\ WebSearches(1) = 1
    /\ Completions(1) = 0

(***************************************************************************)
(* Properties of the cached responses of /chat (Spec).                     *)
(***************************************************************************)
\* C30: a /chat response served from the cache is returned as it was
\* stored, with the timings of the run that produced it, which that run
\* recorded when it finished; serving it records exactly one more timing
\* sample with those same values, so the sample count grows by one with
\* every response served from the cache.
C30_CachedTimingsRecorded ==
    [][\A r \in Slots :
          (pc[r] = "cached" /\ pc'[r] = "respond") =>
             LET sample == MakeSample(result[r].body.timings)
             IN  /\ result[r].cached
                 /\ result'[r] = result[r]
                 /\ \E i \in 1..Len(recorded) : recorded[i] = sample
                 /\ recorded' = Append(recorded, sample)
                 /\ timing_count' = timing_count + 1
                 /\ \A f \in FieldSet : timing_sums'[f] = timing_sums[f] + sample[f]
      ]_vars

\* the response of a slow run served again from the cache: two samples,
\* the same values
C30_Witness ==
    \E r \in Slots :
        /\ pc[r] = "respond"
        /\ result[r].kind = "response"
        /\ result[r].cached
        /\ result[r].body.timings.generate_ms = ElapsedMs(0, TickSeconds)
        /\ timing_count = 2
        /\ recorded[2] = recorded[1]
        /\ recorded[2] = MakeSample(result[r].body.timings)

(***************************************************************************)
(* Properties of the sources of one run (SpecRun).                         *)
(***************************************************************************)
\* seq is the snippets of first, in order, followed by those of second
Concatenation(seq, first, second) ==
    /\ Len(seq) = Len(first) + Len(second)
    /\ \A i \in 1..Len(first) :
          /\ seq[i].title = first[i].title
          /\ seq[i].score = first[i].score
          /\ seq[i].source = first[i].source
    /\ \A i \in 1..Len(second) :
          /\ seq[Len(first) + i].title = second[i].title
          /\ seq[Len(first) + i].score = second[i].score
          /\ seq[Len(first) + i].source = second[i].source

\* C31: every snippet the web_search stage produces has origin "web" and
\* score 0, and the sources given to generate_answer and returned in the
\* response are the retrieved snippets in retrieval order followed by the
\* web snippets in result order.
C31_SourcesRetrievedThenWeb ==
    \A r \in Slots :
        /\ (Ran(r, "web_search") /\ Has(state[r], "web_results")) =>
              \A i \in 1..Len(state[r]["web_results"]) :
                  /\ state[r]["web_results"][i].source = "web"
                  /\ state[r]["web_results"][i].score = 0
        /\ pc[r] = "generate_answer" =>
              Concatenation(rag_sources(state[r]), state[r]["retrieved"],
                            state[r]["web_results"])
        /\ (pc[r] = "respond" /\ result[r].kind = "response" /\ ~result[r].cached) =>
              Concatenation(result[r].body.sources, state[r]["retrieved"],
                            state[r]["web_results"])

\* a weak hit followed by two web results, answered
C31_Witness ==
    /\ pc[1] = "respond"
    /\ result[1].kind = "response"
    /\ Len(result[1].body.sources) = 3
    /\ result[1].body.sources[1].source = "wiki"
    /\ result[1].body.sources[1].score = 10
    /\ result[1].body.sources[2].source = "web"
    /\ result[1].body.sources[2].title = "w1"
    /\ result[1].body.sources[3].score = 0

(***************************************************************************)
(* Termination of one run (SpecRunFair).                                   *)
(***************************************************************************)
RunStarted(r) == pc[r] \in Nodes

ReachedFormatResponse(r) ==
    /\ Len(stages[r]) > 0
    /\ stages[r][Len(stages[r])] = "format_response"

ErrorOutcome(r) == pc[r] = "respond" /\ result[r].kind = "error"

NoStageTwice(r) ==
    /\ \A i, j \in 1..Len(stages[r]) : stages[r][i] = stages[r][j] => i = j
    /\ ErrorOutcome(r) => result[r].error.type # "GraphRecursionError"

\* C32: a run of the graph that has started reaches format_response or ends
\* with an error, given that every node's external call returns or raises;
\* on the way no node runs a second time, so the run never goes round a cycle
\* and never ends at LangGraph's recursion limit
C32_RunTerminates ==
    /\ [](NoStageTwice(1))
    /\ (RunStarted(1) ~> (ReachedFormatResponse(1) \/ ErrorOutcome(1)))

\* a run through all six nodes with format_response as its last
C32_Witness ==
    /\ pc[1] = "finish"
    /\ ReachedFormatResponse(1)
    /\ Len(stages[1]) = Cardinality(Nodes)

(***************************************************************************)
(* Properties of a snapshot that is kept (SpecHeld).                       *)
(***************************************************************************)
\* C33: the dict get_metrics_snapshot returned reads the same for as long as
\* its caller keeps it, whatever requests are counted and whatever timings
\* are recorded in the meantime
C33_SnapshotNeverChanges ==
    held.taken => ReadSnapshot(held.returned) = held.read

\* a snapshot is held and since it was taken a request has been counted and
\* a sample recorded
C33_Witness ==
    /\ held.taken
    /\ request_counts["/chat"] > held.read.requests_by_path["/chat"]
    /\ timing_count > held.read.sample_count
    /\ Len(held.read.samples) > 0

(***************************************************************************)
(* Properties of the requests that share a cached response (SpecShare).    *)
(***************************************************************************)
\* the two requests ask for the same run of the graph
AgreeOn(p, q) ==
    /\ NamespaceOf(p) = NamespaceOf(q)
    /\ p.query = q.query
    /\ p.top_k = q.top_k
    /\ p.min_score = q.min_score
    /\ p.use_web_fallback = q.use_web_fallback
    /\ p.max_web_results = q.max_web_results
    /\ p.chat_history = <<>> /\ q.chat_history = <<>>

\* the request whose run produced the response now cached under p's key
ProducerOf(p) == completed[ChatKeyOf(p)].request

\* C34: a request answered from the chat cache agrees with the request whose
\* run produced the answer on namespace, query, top_k, min_score,
\* use_web_fallback and max_web_results, neither having a history
C34_CachedForAgreeingRequest ==
    \A r \in Slots :
        pc[r] = "cached" =>
            /\ Has(completed, ChatKeyOf(payload[r]))
            /\ AgreeOn(payload[r], ProducerOf(payload[r]))

\* the same with max_web_results left out of the comparison
C34_AgreeingBesidesMaxWebResults ==
    \A r \in Slots :
        pc[r] = "cached" =>
            /\ Has(completed, ChatKeyOf(payload[r]))
            /\ AgreeOn([payload[r] EXCEPT !.max_web_results =
                            ProducerOf(payload[r]).max_web_results],
                       ProducerOf(payload[r]))

(***************************************************************************)
(* Properties of the outcome of a lookup (SpecCache).                      *)
(***************************************************************************)
\* C35: get_chat_cached and get_search_cached return a stored value or None
\* and never raise, whatever time passes between the membership test and the
\* read; a lookup that returned a value returned the last one stored under
\* its key
C35_LookupNeverRaises ==
    cache_op.op = "get" =>
        /\ cache_op.outcome \in {"hit", "miss", "disabled"}
        /\ cache_op.outcome = "hit" =>
              /\ Has(stored[cache_op.cache], cache_op.key)
              /\ cache_op.value = stored[cache_op.cache][cache_op.key].value

\* the same for the lookups whose two clock readings are equal
C35_LookupAtOneInstant ==
    (cache_op.op = "get" /\ cache_op.t1 = cache_op.t2) =>
        /\ cache_op.outcome \in {"hit", "miss", "disabled"}
        /\ cache_op.outcome = "hit" =>
              /\ Has(stored[cache_op.cache], cache_op.key)
              /\ cache_op.value = stored[cache_op.cache][cache_op.key].value

(***************************************************************************)
(* Properties of the request and error counters (SpecShare).               *)
(***************************************************************************)
InFlight == {r \in Slots : pc[r] # "idle"}

\* the request in slot r leaves the middleware in this step
Responds(r) == pc[r] = "respond" /\ pc'[r] = "idle"

IsError(res) == res.status >= 400 \/ res.raised

\* C36: the errors counted for /chat never exceed its requests; every request
\* received is counted once, when it leaves the middleware, and adds one
\* error if its status is 400 or more or its handler raised, and none
\* otherwise; nothing else moves either counter
C36_CountedOnce ==
    /\ [](/\ error_counts["/chat"] <= request_counts["/chat"]
          /\ request_counts["/chat"] + Cardinality(InFlight) = received)
    /\ [][/\ \A r \in Slots :
                Responds(r) =>
                    /\ request_counts'["/chat"] = request_counts["/chat"] + 1
                    /\ error_counts'["/chat"] =
                          error_counts["/chat"] + (IF IsError(result[r]) THEN 1 ELSE 0)
          /\ (\A r \in Slots : ~Responds(r)) =>
                UNCHANGED <<request_counts, error_counts>>]_vars

\* three requests counted: one answered 200, one answered 502 and one whose
\* handler raised
C36_Witness ==
    /\ request_counts["/chat"] = 3
    /\ error_counts["/chat"] = 2
    /\ InFlight = {}
    /\ chat_hits = 1

(***************************************************************************)
(* Properties of the lifetime of an entry (SpecCache).                     *)
(***************************************************************************)
CacheNames == {"chat", "search"}

\* C37: a lookup leaves the expiry of every entry where its put set it, one
\* TTL after the put; so a lookup returns a value only while less than the
\* TTL (60 seconds for a /chat response) has passed since the last put of
\* its key, and finds nothing from then on, however often the key was
\* looked up in between
C37_HitKeepsLifetime ==
    /\ \A c \in CacheNames :
          \A i \in 1..Len(CacheNamed(c).entries) :
              LET e == CacheNamed(c).entries[i]
              IN  /\ Has(stored[c], e.key)
                  /\ e.expires = stored[c][e.key].at + TTLOf(c)
    /\ LookupOfStored =>
          LET put == stored[cache_op.cache][cache_op.key]
          IN  /\ cache_op.outcome = "hit" =>
                    cache_op.t2 - put.at < TTLOf(cache_op.cache)
              /\ cache_op.t1 - put.at >= TTLOf(cache_op.cache) =>
                    cache_op.outcome = "miss"

\* a chat response put once, returned by a lookup half a minute later, and
\* not found by the lookup made when the minute is over
C37_Witness ==
    /\ cache_op.op = "get" /\ cache_op.cache = "chat"
    /\ cache_op.outcome = "miss"
    /\ DOMAIN stored.chat = {cache_op.key}
    /\ cache_op.t1 - stored.chat[cache_op.key].at = CHAT_TTL_SECONDS
    /\ chat_hits >= 1
    /\ CacheKeys(cache_op.before) = {cache_op.key}

(***************************************************************************)
(* Properties of the web fallback of a completed run (SpecRun).            *)
(***************************************************************************)
\* graph.invoke has returned the final state of the run of slot r
RunCompleted(r) ==
    \/ pc[r] = "finish"
    \/ pc[r] = "respond" /\ result[r].kind = "response" /\ ~result[r].cached

WebSources(body) == SelectSeq(body.sources, LAMBDA h : h.source = "web")

\* C38: the final state of a completed run has web_fallback_used set exactly
\* when web_search was one of its stages; where it is not set the state has
\* no web result and no web_ms, and the response built from it has no source
\* of origin "web" and a web_ms of 0
C38_WebFallbackUsedIffSearched ==
    \A r \in Slots :
        RunCompleted(r) =>
            /\ Flag(state[r], "web_fallback_used") <=> Ran(r, "web_search")
            /\ ~Flag(state[r], "web_fallback_used") =>
                  /\ ListOr(state[r], "web_results") = <<>>
                  /\ ~Has(ensure_timings(state[r]), "web_ms")
                  /\ WebSources(build_chat_response(state[r])) = <<>>
                  /\ build_chat_response(state[r]).timings["web_ms"] = 0
                  /\ pc[r] = "respond" =>
                        /\ WebSources(result[r].body) = <<>>
                        /\ result[r].body.timings["web_ms"] = 0

\* a response without web search although the request asked for the fallback
\* and the tool was there: the retrieval was good enough
C38_Witness ==
    /\ pc[1] = "respond" /\ result[1].kind = "response"
    /\ payload[1].use_web_fallback /\ tavily_tool_available.value
    /\ ~Flag(state[1], "web_fallback_used")
    /\ ~Ran(1, "web_search")
    /\ Len(result[1].body.sources) = 2
    /\ result[1].body.timings["web_ms"] = 0
    /\ result[1].body.timings["total_ms"] > 0

(***************************************************************************)
(* Properties of the durations of a fresh response (SpecRun).              *)
(***************************************************************************)
\* the handler has built the response of slot r from a run of its own
FreshResponse(r) ==
    pc[r] = "respond" /\ result[r].kind = "response" /\ ~result[r].cached

StageFields == {"retrieve_ms", "web_ms", "generate_ms"}

\* C39: in the response of a freshly executed run every duration is at least
\* 0, and total_ms, taken around graph.invoke, is at least the sum of
\* retrieve_ms, web_ms and generate_ms, taken inside it one after the other
C39_DurationsAddUp ==
    \A r \in Slots :
        FreshResponse(r) =>
            LET t == result[r].body.timings
            IN  /\ \A f \in FieldSet : t[f] >= 0
                /\ t["total_ms"] >= t["retrieve_ms"] + t["web_ms"] + t["generate_ms"]
                /\ t["total_ms"] = (now - start_total[r]) * 1000

\* a run whose web search and completion took half a minute each
C39_Witness ==
    /\ FreshResponse(1)
    /\ result[1].body.timings["web_ms"] = ElapsedMs(0, TickSeconds)
    /\ result[1].body.timings["generate_ms"] = ElapsedMs(0, TickSeconds)
    /\ result[1].body.timings["retrieve_ms"] = 0
    /\ result[1].body.timings["total_ms"] = ElapsedMs(0, 2 * TickSeconds)

=============================================================================
